---- MODULE Spec2Model ----
(***************************************************************************)
(* A model of shocut, a keyboard shortcut dispatcher.                      *)
(*                                                                         *)
(* JavaScript strings are sequences of characters; a character is a TLA+   *)
(* string naming one UTF-16 code unit ("a", "!", ...).  JavaScript values  *)
(* of a union type (the `context` option and the members of a context      *)
(* list) carry a tag: [t |-> "string", v |-> <<"!","a">>] is '!a' and      *)
(* [t |-> "array", v |-> <<...>>] is an array of tagged values.            *)
(***************************************************************************)
EXTENDS Integers, Sequences, FiniteSets, TLC

VARIABLES
    shortcuts_,                     \* Shocut.shortcuts_ : key -> list of Shortcut
    activeContexts_,                \* Shocut.activeContexts_
    hasNoModShortcutsInActiveCtx_,  \* Shocut.hasNoModShortcutsInActiveCtx_
    autobind_,                      \* Shocut.autobind_
    systemMod_,                     \* Shocut.systemMod_
    call,                           \* the last public call: its name, arguments and outcome
    fn,                             \* a direct call of an exported function: arguments and result
    twin,                           \* a second instance that holds the same shortcuts
    listeners                       \* the instances whose handleKeydown is a keydown listener
                                    \* of window

vars == <<shortcuts_, activeContexts_, hasNoModShortcutsInActiveCtx_, autobind_,
          systemMod_, call, fn, twin, listeners>>

(***************************************************************************)
(* Bounds of the model.                                                    *)
(***************************************************************************)
MaxShortcuts == 2   \* records held by one instance
MaxTerms == 2       \* OR-terms of a context expression passed to checkContext
MaxRefs == 3        \* context references of a context expression, all terms together
MaxMods == 2        \* length of the required modifier list passed to checkModifiersMatch
MaxIsolated == 1    \* records held by each of two instances that are called on their own
MaxRegistered == 3  \* records held by an instance that is given invalid shortcuts
MaxRemovable == 4   \* records held by an instance whose shortcuts are removed by key

(***************************************************************************)
(* JavaScript values.                                                      *)
(***************************************************************************)
JUndefined == [t |-> "undefined"]
JFalse == [t |-> "false"]
JStr(s) == [t |-> "string", v |-> s]
JArr(a) == [t |-> "array", v |-> a]
JFn(f) == [t |-> "function", v |-> f]

isArray(x) == x.t = "array"

includes(arr, val) == \E i \in 1..Len(arr) : arr[i] = val

indexOf(arr, val) ==
    IF includes(arr, val) THEN CHOOSE i \in 1..Len(arr) :
                                   arr[i] = val /\ \A j \in 1..(i - 1) : arr[j] # val
    ELSE 0

\* Array.prototype.splice(index, 1), index counted from 1
splice1(arr, index) == [i \in 1..(Len(arr) - 1) |-> IF i < index THEN arr[i] ELSE arr[i + 1]]

startsWith(s, c) == Len(s) >= 1 /\ s[1] = c

substring1(s) == IF Len(s) = 0 THEN <<>> ELSE Tail(s)

LowerCase == <<"a", "b", "c", "d", "e", "f", "g", "h", "i", "j", "k", "l", "m",
               "n", "o", "p", "q", "r", "s", "t", "u", "v", "w", "x", "y", "z">>
UpperCase == <<"A", "B", "C", "D", "E", "F", "G", "H", "I", "J", "K", "L", "M",
               "N", "O", "P", "Q", "R", "S", "T", "U", "V", "W", "X", "Y", "Z">>
Digits == <<"0", "1", "2", "3", "4", "5", "6", "7", "8", "9">>

\* String.prototype.toUpperCase on one character
toUpperCaseChar(c) ==
    IF includes(LowerCase, c) THEN UpperCase[indexOf(LowerCase, c)]
    ELSE IF c = "ya" THEN "YA"
    ELSE IF c = "sacute" THEN "Sacute"
    ELSE c

toUpperCase(s) == [i \in 1..Len(s) |-> toUpperCaseChar(s[i])]

\* String.prototype.charCodeAt(0); -1 stands for NaN (the empty string)
charCodeAt0(s) ==
    IF Len(s) = 0 THEN -1
    ELSE IF includes(LowerCase, s[1]) THEN 96 + indexOf(LowerCase, s[1])
    ELSE IF includes(UpperCase, s[1]) THEN 64 + indexOf(UpperCase, s[1])
    ELSE IF includes(Digits, s[1]) THEN 47 + indexOf(Digits, s[1])
    ELSE IF s[1] = "!" THEN 33
    ELSE IF s[1] = ":" THEN 58
    ELSE IF s[1] = "-" THEN 45
    ELSE IF s[1] = "[" THEN 91
    ELSE IF s[1] = "|" THEN 124
    ELSE IF s[1] = "section" THEN 167    \* section sign
    ELSE IF s[1] = "sacute" THEN 347     \* Latin small letter s with acute
    ELSE IF s[1] = "Sacute" THEN 346     \* Latin capital letter s with acute
    ELSE IF s[1] = "xabove" THEN 879     \* combining Latin small letter x
    ELSE IF s[1] = "Heta" THEN 880       \* Greek capital letter heta
    ELSE IF s[1] = "ya" THEN 1103    \* Cyrillic small letter ya
    ELSE IF s[1] = "YA" THEN 1071    \* Cyrillic capital letter ya
    ELSE 0

(***************************************************************************)
(* lib/array                                                               *)
(***************************************************************************)
RECURSIVE dedupe(_)
dedupeFrom(input, i, output) ==
    IF isArray(input[i]) THEN Append(output, JArr(dedupe(input[i].v)))
    ELSE IF ~includes(output, input[i]) THEN Append(output, input[i])
    ELSE output

RECURSIVE dedupeLoop(_, _, _)
dedupeLoop(input, i, output) ==
    IF i > Len(input) THEN output
    ELSE dedupeLoop(input, i + 1, dedupeFrom(input, i, output))

\* dedupe of an array of tagged values (strings and nested arrays)
dedupe(input) == dedupeLoop(input, 1, <<>>)

RECURSIVE dedupeFlatLoop(_, _, _)
dedupeFlatLoop(input, i, output) ==
    IF i > Len(input) THEN output
    ELSE dedupeFlatLoop(input, i + 1,
             IF ~includes(output, input[i]) THEN Append(output, input[i]) ELSE output)

\* dedupe of an array that holds no nested array (string[], Modifier[])
dedupeFlat(input) == dedupeFlatLoop(input, 1, <<>>)

haveSameValues(a, b) ==
    IF Len(a) # Len(b) THEN FALSE
    ELSE IF \E i \in 1..Len(a) : ~includes(b, a[i]) THEN FALSE
    ELSE IF \E i \in 1..Len(b) : ~includes(a, b[i]) THEN FALSE
    ELSE TRUE

(***************************************************************************)
(* functions.ts                                                            *)
(***************************************************************************)
SUPPORTED_MODIFIERS == <<"system", "ctrl", "meta", "alt", "shift">>

\* `prop` is a tagged value: undefined, one value or an array of values
getArrayFromProp(prop) ==
    IF isArray(prop) THEN prop.v
    ELSE IF prop.t # "undefined" THEN <<prop.v>>
    ELSE <<>>

isSymbol(charCode) ==
    \/ charCode >= 32 /\ charCode <= 47
    \/ charCode >= 91 /\ charCode <= 96
    \/ charCode >= 123 /\ charCode <= 126
    \/ charCode >= 160 /\ charCode <= 191

getModifiers(e) ==
    (IF e.ctrlKey THEN <<"ctrl">> ELSE <<>>)
    \o (IF e.metaKey THEN <<"meta">> ELSE <<>>)
    \o (IF e.shiftKey THEN <<"shift">> ELSE <<>>)
    \o (IF e.altKey THEN <<"alt">> ELSE <<>>)

\* sanitizeKeyValue that keeps the key as registered
sanitizeKeyValue_asGiven(key) == key

sanitizeKeyValue(key) == IF Len(key) = 1 THEN toUpperCase(key) ELSE key

\* validateContexts that looks at the first name only
validateContexts_firstOnly(contexts) == Len(contexts) = 0 \/ ~startsWith(contexts[1], "!")

\* TRUE when validateContexts returns, FALSE when it throws
validateContexts(contexts) == \A i \in 1..Len(contexts) : ~startsWith(contexts[i], "!")

\* The outcome of processShortcutContext: the stored context, or the TypeError that
\* dedupe raises when it iterates a value that is not iterable (a function).
processShortcutContext(context) ==
    IF context.t = "undefined" \/ context.t = "false" THEN [thrown |-> "none", value |-> JArr(<<>>)]
    ELSE IF context.t = "string" THEN [thrown |-> "none", value |-> JArr(<<context>>)]
    ELSE IF context.t = "array" THEN [thrown |-> "none", value |-> JArr(dedupe(context.v))]
    ELSE [thrown |-> "TypeError", value |-> JUndefined]

\* checkModifiersMatch that adds systemKey without looking whether it is already required
checkModifiersMatch_pushAlways(input, target, systemKey) ==
    IF Len(target) = 0 THEN Len(input) = 0
    ELSE LET resolved == IF includes(target, "system")
                         THEN Append(splice1(target, indexOf(target, "system")), systemKey)
                         ELSE target
         IN Len(input) = Len(resolved) /\ haveSameValues(resolved, input)

\* checkModifiersMatch that only requires every required modifier to be held
checkModifiersMatch_heldSuperset(input, target, systemKey) ==
    LET spliced == IF includes(target, "system")
                   THEN splice1(target, indexOf(target, "system"))
                   ELSE target
        resolved == IF includes(target, "system") /\ ~includes(spliced, systemKey)
                    THEN Append(spliced, systemKey)
                    ELSE spliced
    IN \A i \in 1..Len(resolved) : includes(input, resolved[i])

checkModifiersMatch(input, target, systemKey) ==
    IF Len(target) = 0 THEN Len(input) = 0
    ELSE LET spliced == IF includes(target, "system")
                        THEN splice1(target, indexOf(target, "system"))
                        ELSE target
             resolved == IF includes(target, "system") /\ ~includes(spliced, systemKey)
                         THEN Append(spliced, systemKey)
                         ELSE spliced
         IN IF Len(input) # Len(resolved) THEN FALSE
            ELSE IF ~haveSameValues(resolved, input) THEN FALSE
            ELSE TRUE

\* checkContextAndRelation in which a group is a negation only when all its negated
\* contexts are active
checkContextAndRelation_allNegations(activeContexts, input) ==
    LET arr == IF ~isArray(input) THEN <<input>> ELSE input.v
        negRefs == SelectSeq(arr, LAMBDA c : startsWith(c.v, "!"))
        affRefs == SelectSeq(arr, LAMBDA c : ~startsWith(c.v, "!"))
        negations == [i \in 1..Len(negRefs) |-> includes(activeContexts, substring1(negRefs[i].v))]
        affirmations == [i \in 1..Len(affRefs) |-> includes(activeContexts, affRefs[i].v)]
        isNegation == Len(negations) > 0 /\ \A i \in 1..Len(negations) : negations[i]
    IN IF \E i \in 1..Len(affirmations) : ~affirmations[i] THEN "no_match"
       ELSE IF Len(negations) > 0 /\ ~isNegation /\ Len(affirmations) = 0 THEN "match_if_single"
       ELSE IF isNegation THEN "negation" ELSE "inclusion"

\* checkContextAndRelation in which an active negated context decides before the
\* affirmations are looked at
checkContextAndRelation_negationFirst(activeContexts, input) ==
    LET arr == IF ~isArray(input) THEN <<input>> ELSE input.v
        negRefs == SelectSeq(arr, LAMBDA c : startsWith(c.v, "!"))
        affRefs == SelectSeq(arr, LAMBDA c : ~startsWith(c.v, "!"))
        negations == [i \in 1..Len(negRefs) |-> includes(activeContexts, substring1(negRefs[i].v))]
        affirmations == [i \in 1..Len(affRefs) |-> includes(activeContexts, affRefs[i].v)]
        isNegation == \E i \in 1..Len(negations) : negations[i]
    IN IF isNegation THEN "negation"
       ELSE IF \E i \in 1..Len(affirmations) : ~affirmations[i] THEN "no_match"
       ELSE IF Len(negations) > 0 /\ Len(affirmations) = 0 THEN "match_if_single"
       ELSE "inclusion"

\* checkContextAndRelation in which a group without references matches nothing
checkContextAndRelation_emptyNoMatch(activeContexts, input) ==
    LET arr == IF ~isArray(input) THEN <<input>> ELSE input.v
        negRefs == SelectSeq(arr, LAMBDA c : startsWith(c.v, "!"))
        affRefs == SelectSeq(arr, LAMBDA c : ~startsWith(c.v, "!"))
        negations == [i \in 1..Len(negRefs) |-> includes(activeContexts, substring1(negRefs[i].v))]
        affirmations == [i \in 1..Len(affRefs) |-> includes(activeContexts, affRefs[i].v)]
        isNegation == \E i \in 1..Len(negations) : negations[i]
    IN IF Len(arr) = 0 \/ \E i \in 1..Len(affirmations) : ~affirmations[i] THEN "no_match"
       ELSE IF Len(negations) > 0 /\ ~isNegation /\ Len(affirmations) = 0 THEN "match_if_single"
       ELSE IF isNegation THEN "negation" ELSE "inclusion"

\* checkContextAndRelation in which one active affirmation is enough for the group
checkContextAndRelation_anyAffirmation(activeContexts, input) ==
    LET arr == IF ~isArray(input) THEN <<input>> ELSE input.v
        negRefs == SelectSeq(arr, LAMBDA c : startsWith(c.v, "!"))
        affRefs == SelectSeq(arr, LAMBDA c : ~startsWith(c.v, "!"))
        negations == [i \in 1..Len(negRefs) |-> includes(activeContexts, substring1(negRefs[i].v))]
        affirmations == [i \in 1..Len(affRefs) |-> includes(activeContexts, affRefs[i].v)]
        isNegation == \E i \in 1..Len(negations) : negations[i]
    IN IF Len(affirmations) > 0 /\ \A i \in 1..Len(affirmations) : ~affirmations[i]
       THEN "no_match"
       ELSE IF Len(negations) > 0 /\ ~isNegation /\ Len(affirmations) = 0 THEN "match_if_single"
       ELSE IF isNegation THEN "negation" ELSE "inclusion"

checkContextAndRelation(activeContexts, input) ==
    LET arr == IF ~isArray(input) THEN <<input>> ELSE input.v
        isNeg(c) == startsWith(c.v, "!")
        negRefs == SelectSeq(arr, isNeg)
        affRefs == SelectSeq(arr, LAMBDA c : ~isNeg(c))
        negations == [i \in 1..Len(negRefs) |-> includes(activeContexts, substring1(negRefs[i].v))]
        affirmations == [i \in 1..Len(affRefs) |-> includes(activeContexts, affRefs[i].v)]
        isNegation == \E i \in 1..Len(negations) : negations[i]
    IN IF \E i \in 1..Len(affirmations) : ~affirmations[i] THEN "no_match"
       ELSE IF Len(negations) > 0 /\ ~isNegation /\ Len(affirmations) = 0 THEN "match_if_single"
       ELSE IF isNegation THEN "negation" ELSE "inclusion"

\* checkContext's loop in which a negation fails its own term only
RECURSIVE checkContextLoop_localNegation(_, _, _, _, _, _)
checkContextLoop_localNegation(activeContexts, terms, i, matchFound, matchIfSingle, hasAffirmativeStatements) ==
    IF i > Len(terms)
    THEN IF matchIfSingle /\ ~hasAffirmativeStatements THEN TRUE ELSE matchFound
    ELSE LET result == checkContextAndRelation(activeContexts, terms[i])
         IN IF result = "inclusion"
            THEN checkContextLoop_localNegation(activeContexts, terms, i + 1, TRUE,
                                                matchIfSingle, TRUE)
            ELSE IF result = "match_if_single"
            THEN checkContextLoop_localNegation(activeContexts, terms, i + 1, matchFound, TRUE,
                                                hasAffirmativeStatements)
            ELSE checkContextLoop_localNegation(activeContexts, terms, i + 1, matchFound,
                                                matchIfSingle, TRUE)

\* checkContext's loop in which an unmatched negation matches whatever the affirmations do
RECURSIVE checkContextLoop_negationRescues(_, _, _, _, _, _)
checkContextLoop_negationRescues(activeContexts, terms, i, matchFound, matchIfSingle, hasAffirmativeStatements) ==
    IF i > Len(terms)
    THEN IF matchIfSingle THEN TRUE ELSE matchFound
    ELSE LET result == checkContextAndRelation(activeContexts, terms[i])
         IN IF result = "negation" THEN FALSE
            ELSE IF result = "inclusion"
            THEN checkContextLoop_negationRescues(activeContexts, terms, i + 1, TRUE,
                                                  matchIfSingle, TRUE)
            ELSE IF result = "match_if_single"
            THEN checkContextLoop_negationRescues(activeContexts, terms, i + 1, matchFound, TRUE,
                                                  hasAffirmativeStatements)
            ELSE checkContextLoop_negationRescues(activeContexts, terms, i + 1, matchFound,
                                                  matchIfSingle, TRUE)

\* checkContext's loop that returns true at the first inclusion
RECURSIVE checkContextLoop_firstInclusion(_, _, _, _, _, _)
checkContextLoop_firstInclusion(activeContexts, terms, i, matchFound, matchIfSingle, hasAffirmativeStatements) ==
    IF i > Len(terms)
    THEN IF matchIfSingle /\ ~hasAffirmativeStatements THEN TRUE ELSE matchFound
    ELSE LET result == checkContextAndRelation(activeContexts, terms[i])
         IN IF result = "negation" THEN FALSE
            ELSE IF result = "inclusion" THEN TRUE
            ELSE IF result = "match_if_single"
            THEN checkContextLoop_firstInclusion(activeContexts, terms, i + 1, matchFound, TRUE,
                                                 hasAffirmativeStatements)
            ELSE checkContextLoop_firstInclusion(activeContexts, terms, i + 1, matchFound,
                                                 matchIfSingle, TRUE)

\* The loop of checkContext from term i on, with the three flags it accumulates
RECURSIVE checkContextLoop(_, _, _, _, _, _)
checkContextLoop(activeContexts, terms, i, matchFound, matchIfSingle, hasAffirmativeStatements) ==
    IF i > Len(terms)
    THEN IF matchIfSingle /\ ~hasAffirmativeStatements THEN TRUE ELSE matchFound
    ELSE LET result == checkContextAndRelation(activeContexts, terms[i])
         IN IF result = "negation" THEN FALSE
            ELSE IF result = "inclusion"
                 THEN checkContextLoop(activeContexts, terms, i + 1, TRUE, matchIfSingle, TRUE)
            ELSE IF result = "match_if_single"
                 THEN checkContextLoop(activeContexts, terms, i + 1, matchFound, TRUE,
                                       hasAffirmativeStatements)
            ELSE checkContextLoop(activeContexts, terms, i + 1, matchFound, matchIfSingle, TRUE)

\* inputContext is a tagged array (the stored context) or a tagged string
checkContext(activeContexts, inputContext) ==
    IF Len(inputContext.v) = 0 THEN TRUE
    ELSE checkContextLoop(activeContexts,
                          IF ~isArray(inputContext) THEN <<inputContext>> ELSE inputContext.v,
                          1, FALSE, FALSE, FALSE)

\* `F${i}` for i in 1..12
F_KEYS == [i \in 1..12 |-> IF i < 10 THEN <<"F", Digits[i + 1]>>
                           ELSE <<"F", Digits[(i \div 10) + 1], Digits[(i % 10) + 1]>>]

NON_TYPING_KEYS ==
    <<<<"E", "s", "c", "a", "p", "e">>>>
    \o F_KEYS
    \o <<<<"P", "r", "i", "n", "t", "S", "c", "r", "e", "e", "n">>,
         <<"I", "n", "s", "e", "r", "t">>>>

hasNoModShortcuts(shortcuts, activeContexts) ==
    \E key \in DOMAIN shortcuts :
        /\ ~includes(NON_TYPING_KEYS, key)
        /\ \E i \in 1..Len(shortcuts[key]) :
              /\ checkContext(activeContexts, shortcuts[key][i].context)
              /\ \/ Len(shortcuts[key][i].mod) = 0
                 \/ Len(SelectSeq(shortcuts[key][i].mod, LAMBDA mod : mod # "shift")) = 0

(***************************************************************************)
(* shortcut_key.ts                                                         *)
(***************************************************************************)
capitalHetaCode == 880

\* getShortcutKey that takes the characters above capital heta only for non-Latin
getShortcutKey_aboveHeta(key, code) ==
    IF Len(key) # 1 THEN key
    ELSE IF charCodeAt0(key) > capitalHetaCode
            /\ Len(code) = 4 /\ SubSeq(code, 1, 3) = <<"K", "e", "y">>
         THEN <<code[4]>>
    ELSE IF charCodeAt0(key) > capitalHetaCode
            /\ Len(code) = 6 /\ SubSeq(code, 1, 5) = <<"D", "i", "g", "i", "t">>
         THEN <<code[6]>>
    ELSE toUpperCase(key)

getShortcutKey(key, code) ==
    IF Len(key) # 1 THEN key
    ELSE IF charCodeAt0(key) >= capitalHetaCode
            /\ Len(code) = 4 /\ SubSeq(code, 1, 3) = <<"K", "e", "y">>
         THEN <<code[4]>>
    ELSE IF charCodeAt0(key) >= capitalHetaCode
            /\ Len(code) = 6 /\ SubSeq(code, 1, 5) = <<"D", "i", "g", "i", "t">>
         THEN <<code[6]>>
    ELSE toUpperCase(key)

(***************************************************************************)
(* index.ts: class Shocut.  `this` is the record of the instance's fields; *)
(* a method is an operator from `this` to the instance it leaves behind    *)
(* and the error it throws ("none" when it returns).  The Map shortcuts_   *)
(* is a function from its keys to their lists.                             *)
(***************************************************************************)
\* processChanges_ that leaves the cached flag as it was
processChanges__keep(this) == this

processChanges_(this) ==
    [this EXCEPT !.hasNoModShortcutsInActiveCtx_ =
                     hasNoModShortcuts(this.shortcuts_, this.activeContexts_)]

\* a first loop that rejects a symbol key only when shift is the only modifier
modsAccepted_shiftAlone(shortcut) ==
    LET mods == getArrayFromProp(shortcut.mod)
    IN \A i \in 1..Len(mods) :
          /\ includes(SUPPORTED_MODIFIERS, mods[i])
          /\ ~(mods = <<"shift">> /\ isSymbol(charCodeAt0(shortcut.key)))

\* the first loop of registerShortcuts returns without throwing for this shortcut
modsAccepted(shortcut) ==
    LET mods == getArrayFromProp(shortcut.mod)
    IN \A i \in 1..Len(mods) :
          /\ includes(SUPPORTED_MODIFIERS, mods[i])
          /\ ~(includes(mods, "shift") /\ isSymbol(charCodeAt0(shortcut.key)))

\* the second loop of registerShortcuts from shortcut i on
RECURSIVE registerLoop(_, _, _)
registerLoop(this, shortcuts, i) ==
    IF i > Len(shortcuts) THEN [this |-> processChanges_(this), thrown |-> "none"]
    ELSE LET key == sanitizeKeyValue(shortcuts[i].key)
             map == IF key \in DOMAIN this.shortcuts_ THEN this.shortcuts_
                    ELSE this.shortcuts_ @@ (key :> <<>>)
             context == processShortcutContext(shortcuts[i].context)
             stored == [key |-> key,
                        handler |-> shortcuts[i].handler,
                        mod |-> dedupeFlat(getArrayFromProp(shortcuts[i].mod)),
                        context |-> context.value,
                        noDefaultPrevent |-> shortcuts[i].noDefaultPrevent,
                        noPropagationStop |-> shortcuts[i].noPropagationStop]
         IN IF context.thrown # "none"
            THEN [this |-> [this EXCEPT !.shortcuts_ = map], thrown |-> context.thrown]
            ELSE registerLoop([this EXCEPT !.shortcuts_ =
                                   [map EXCEPT ![key] = Append(map[key], stored)]],
                              shortcuts, i + 1)

\* the loop of a registerShortcuts that validates each shortcut when it stores it
RECURSIVE registerLoop_validating(_, _, _)
registerLoop_validating(this, shortcuts, i) ==
    IF i > Len(shortcuts) THEN [this |-> processChanges_(this), thrown |-> "none"]
    ELSE IF ~modsAccepted(shortcuts[i]) THEN [this |-> this, thrown |-> "Error"]
    ELSE registerLoop_validating(registerLoop(this, <<shortcuts[i]>>, 1).this, shortcuts, i + 1)

\* registerShortcuts with one loop instead of two
registerShortcuts_oneLoop(this, shortcuts) == registerLoop_validating(this, shortcuts, 1)

registerShortcuts(this, shortcuts) ==
    IF \E i \in 1..Len(shortcuts) : ~modsAccepted(shortcuts[i])
    THEN [this |-> this, thrown |-> "Error"]
    ELSE registerLoop(this, shortcuts, 1)

\* new Shocut(options); options.shortcuts is undefined or an array of shortcuts
constructor(options) ==
    LET fields == [shortcuts_ |-> <<>>,
                   activeContexts_ |-> getArrayFromProp(options.activeContexts),
                   hasNoModShortcutsInActiveCtx_ |-> FALSE,
                   autobind_ |-> FALSE,
                   systemMod_ |-> options.systemMod]
        this == [fields EXCEPT !.autobind_ = ~options.noAutoBind]
    IN IF ~validateContexts(getArrayFromProp(options.activeContexts))
       THEN [this |-> fields, thrown |-> "Error"]
       ELSE IF isArray(options.shortcuts) THEN registerShortcuts(this, options.shortcuts.v)
       ELSE [this |-> this, thrown |-> "none"]

\* the keydown listeners of window after the constructor has worked on `this`:
\* window.addEventListener('keydown', this.handleKeydown) when it binds the handler
addEventListener(bound, on, this) == IF this.autobind_ THEN bound \cup {on} ELSE bound

\* destroy that unbinds the listener and keeps the data of the instance
destroy_unbindOnly(this) ==
    [this |-> [this EXCEPT !.autobind_ = FALSE], unbinds |-> this.autobind_, thrown |-> "none"]

\* `unbinds`: window.removeEventListener('keydown', this.handleKeydown) is called
destroy(this) ==
    [this |-> [this EXCEPT !.shortcuts_ = <<>>,
                           !.activeContexts_ = <<>>,
                           !.autobind_ = FALSE,
                           !.hasNoModShortcutsInActiveCtx_ = FALSE],
     unbinds |-> this.autobind_,
     thrown |-> "none"]

add(this, shortcuts) == registerShortcuts(this, shortcuts)

\* the records of the Map, as (key, index) pairs
Stored(map) == UNION {{<<key, i>> : i \in 1..Len(map[key])} : key \in DOMAIN map}

\* the anti-filter callbacks passed to remove
removeShortcut(callback, shortcut) ==
    IF callback.by = "all" THEN TRUE
    ELSE IF callback.by = "handler" THEN shortcut.handler.name = callback.name
    ELSE FALSE

\* remove that applies the callback to the records of every key, whatever keys it is given
remove_everyKey(this, callback, keys) ==
    LET kept(key) == SelectSeq(this.shortcuts_[key], LAMBDA v : ~removeShortcut(callback, v))
        newMap == [key \in DOMAIN this.shortcuts_ |-> kept(key)]
    IN [this |-> processChanges_([this EXCEPT !.shortcuts_ = newMap]),
        thrown |-> "none",
        ret |-> Cardinality(Stored(this.shortcuts_)) - Cardinality(Stored(newMap)),
        tested |-> Stored(this.shortcuts_)]

\* `keys` is a tagged value: undefined, one string or an array of strings.  `tested`
\* holds the records that were passed to the callback.
remove(this, callback, keys) ==
    LET sanitized == IF isArray(keys) THEN [i \in 1..Len(keys.v) |-> sanitizeKeyValue(keys.v[i])]
                     ELSE IF keys.t = "string" THEN <<sanitizeKeyValue(keys.v)>>
                     ELSE <<>>
        selected(key) == keys.t = "undefined" \/ includes(sanitized, key)
        kept(key) == SelectSeq(this.shortcuts_[key], LAMBDA v : ~removeShortcut(callback, v))
        newMap == [key \in DOMAIN this.shortcuts_ |->
                      IF selected(key) THEN kept(key) ELSE this.shortcuts_[key]]
        RECURSIVE count(_)
        count(ks) == IF ks = {} THEN 0
                     ELSE LET key == CHOOSE k \in ks : TRUE
                          IN (Len(this.shortcuts_[key]) - Len(newMap[key])) + count(ks \ {key})
    IN [this |-> processChanges_([this EXCEPT !.shortcuts_ = newMap]),
        thrown |-> "none",
        ret |-> count(DOMAIN this.shortcuts_),
        tested |-> {record \in Stored(this.shortcuts_) : selected(record[1])}]

getActiveContexts(this) == this.activeContexts_

RECURSIVE activateLoop(_, _, _)
activateLoop(activeContexts, contexts, i) ==
    IF i > Len(contexts) THEN activeContexts
    ELSE activateLoop(IF ~includes(activeContexts, contexts[i])
                      THEN Append(activeContexts, contexts[i]) ELSE activeContexts,
                      contexts, i + 1)

\* activateContext that validates the names and activates none
activateContext_validateOnly(this, contexts) ==
    [this |-> this, thrown |-> IF validateContexts(contexts) THEN "none" ELSE "Error"]

activateContext(this, contexts) ==
    IF ~validateContexts(contexts) THEN [this |-> this, thrown |-> "Error"]
    ELSE [this |-> processChanges_([this EXCEPT !.activeContexts_ =
                                        activateLoop(this.activeContexts_, contexts, 1)]),
          thrown |-> "none"]

setActiveContexts(this, contexts) ==
    IF ~validateContexts(contexts) THEN [this |-> this, thrown |-> "Error"]
    ELSE [this |-> processChanges_([this EXCEPT !.activeContexts_ = dedupeFlat(contexts)]),
          thrown |-> "none"]

RECURSIVE deactivateLoop(_, _, _)
deactivateLoop(activeContexts, contexts, i) ==
    IF i > Len(contexts) THEN activeContexts
    ELSE deactivateLoop(IF indexOf(activeContexts, contexts[i]) # 0
                        THEN splice1(activeContexts, indexOf(activeContexts, contexts[i]))
                        ELSE activeContexts,
                        contexts, i + 1)

deactivateContext(this, contexts) ==
    [this |-> processChanges_([this EXCEPT !.activeContexts_ =
                                   deactivateLoop(this.activeContexts_, contexts, 1)]),
     thrown |-> "none"]

\* shortcut.handler.call(this, e): what the handlers of the model do with the instance.
\* A handler calls one public method of `this`, or none: this.activateContext(...contexts),
\* this.deactivateContext(...contexts), this.setActiveContexts(...contexts),
\* this.remove(() => true) or this.add(shortcuts).
handlerCall(handler, this) ==
    IF handler.does = "activateContext" THEN activateContext(this, handler.contexts).this
    ELSE IF handler.does = "deactivateContext" THEN deactivateContext(this, handler.contexts).this
    ELSE IF handler.does = "setActiveContexts" THEN setActiveContexts(this, handler.contexts).this
    ELSE IF handler.does = "remove" THEN remove(this, [by |-> "all"], JUndefined).this
    ELSE IF handler.does = "add" THEN add(this, handler.shortcuts).this
    ELSE this

\* an iteration in which noDefaultPrevent opts out of both effects
processShortcutStep_oneFlag(pass, e, shortcut) ==
    LET matches == /\ checkModifiersMatch(getModifiers(e), shortcut.mod, pass.this.systemMod_)
                   /\ checkContext(pass.this.activeContexts_, shortcut.context)
        seen == [pass EXCEPT !.evaluated = Append(pass.evaluated, shortcut),
                             !.observed = Append(pass.observed, pass.this.activeContexts_)]
    IN IF matches
       THEN [seen EXCEPT !.this = handlerCall(shortcut.handler, pass.this),
                         !.fired = Append(pass.fired, shortcut),
                         !.defaultPrevented =
                             pass.defaultPrevented \/ ~shortcut.noDefaultPrevent,
                         !.propagationStopped =
                             pass.propagationStopped \/ ~shortcut.noDefaultPrevent,
                         !.ret = TRUE]
       ELSE seen

\* One iteration of the loop of processShortcut_.  `pass` holds the instance, the
\* handlers called so far, the records evaluated so far, the value of this.activeContexts_
\* each evaluation read, and what was done to the event.
processShortcutStep(pass, e, shortcut) ==
    LET matches == /\ checkModifiersMatch(getModifiers(e), shortcut.mod, pass.this.systemMod_)
                   /\ checkContext(pass.this.activeContexts_, shortcut.context)
        seen == [pass EXCEPT !.evaluated = Append(pass.evaluated, shortcut),
                             !.observed = Append(pass.observed, pass.this.activeContexts_)]
    IN IF matches
       THEN [seen EXCEPT !.this = handlerCall(shortcut.handler, pass.this),
                         !.fired = Append(pass.fired, shortcut),
                         !.defaultPrevented =
                             pass.defaultPrevented \/ ~shortcut.noDefaultPrevent,
                         !.propagationStopped =
                             pass.propagationStopped \/ ~shortcut.noPropagationStop,
                         !.ret = TRUE]
       ELSE seen

\* the loop of processShortcut_ from candidate i on
RECURSIVE processShortcutLoop(_, _, _, _)
processShortcutLoop(pass, e, keyShortcuts, i) ==
    IF i > Len(keyShortcuts) THEN pass
    ELSE processShortcutLoop(processShortcutStep(pass, e, keyShortcuts[i]),
                             e, keyShortcuts, i + 1)

\* Map.get(key) || []
getOrEmpty(map, key) == IF key \in DOMAIN map THEN map[key] ELSE <<>>

\* the candidate list with the records of the key before those of the code
keyShortcutsOf_keyFirst(shortcuts, e) ==
    getOrEmpty(shortcuts, getShortcutKey(e.key, e.code))
    \o getOrEmpty(shortcuts, <<"c", "o", "d", "e", ":">> \o e.code)

\* const keyShortcuts = [...code records, ...key records]
keyShortcutsOf(shortcuts, e) ==
    getOrEmpty(shortcuts, <<"c", "o", "d", "e", ":">> \o e.code)
    \o getOrEmpty(shortcuts, getShortcutKey(e.key, e.code))

\* a loop that returns after the first handler it calls
RECURSIVE processShortcutLoop_break(_, _, _, _)
processShortcutLoop_break(pass, e, keyShortcuts, i) ==
    IF i > Len(keyShortcuts) \/ pass.ret THEN pass
    ELSE processShortcutLoop_break(processShortcutStep(pass, e, keyShortcuts[i]),
                                   e, keyShortcuts, i + 1)

\* a loop over the lists the Map holds at each iteration, not over the list built
\* when the pass started
RECURSIVE processShortcutLoop_live(_, _, _)
processShortcutLoop_live(pass, e, i) ==
    IF i > Len(keyShortcutsOf(pass.this.shortcuts_, e)) THEN pass
    ELSE processShortcutLoop_live(
             processShortcutStep(pass, e, keyShortcutsOf(pass.this.shortcuts_, e)[i]),
             e, i + 1)

\* processShortcut_ that stops at the first match
processShortcut__firstOnly(pass, e, keyShortcuts) ==
    processShortcutLoop_break(pass, e, keyShortcuts, 1)

\* processShortcut_ that iterates the live lists of the Map
processShortcut__liveList(pass, e, keyShortcuts) == processShortcutLoop_live(pass, e, 1)

\* processShortcut_ that reports a fired handler whenever it had candidates
processShortcut__candidates(pass, e, keyShortcuts) ==
    [processShortcutLoop(pass, e, keyShortcuts, 1) EXCEPT !.ret = Len(keyShortcuts) > 0]

processShortcut_(pass, e, keyShortcuts) == processShortcutLoop(pass, e, keyShortcuts, 1)

\* a call of handleKeydown that has called no handler yet
newPass(this) ==
    [this |-> this, ret |-> FALSE, fired |-> <<>>, evaluated |-> <<>>, observed |-> <<>>,
     defaultPrevented |-> FALSE, propagationStopped |-> FALSE]

\* a body that prevents the default action of every event it has candidates for
fullProcessing_claimed(this, e) ==
    IF Len(keyShortcutsOf(this.shortcuts_, e)) > 0
    THEN [processShortcut_(newPass(this), e, keyShortcutsOf(this.shortcuts_, e))
              EXCEPT !.defaultPrevented = TRUE]
    ELSE newPass(this)

\* the body of the `if` of handleKeydown: lookup and processShortcut_
fullProcessing(this, e) ==
    IF Len(keyShortcutsOf(this.shortcuts_, e)) > 0
    THEN processShortcut_(newPass(this), e, keyShortcutsOf(this.shortcuts_, e))
    ELSE newPass(this)

\* handleKeydown that leaves alone an event another listener has handled
handleKeydown_unlessHandled(this, e) ==
    IF e.defaultPrevented \/ e.propagationStopped THEN newPass(this)
    ELSE IF \/ this.hasNoModShortcutsInActiveCtx_
            \/ e.ctrlKey \/ e.metaKey \/ e.altKey
            \/ includes(NON_TYPING_KEYS, e.code)
    THEN fullProcessing(this, e)
    ELSE newPass(this)

\* handleKeydown without the typing optimization
handleKeydown_noFastPath(this, e) == fullProcessing(this, e)

handleKeydown(this, e) ==
    IF \/ this.hasNoModShortcutsInActiveCtx_
       \/ e.ctrlKey \/ e.metaKey \/ e.altKey
       \/ includes(NON_TYPING_KEYS, e.code)
    THEN fullProcessing(this, e)
    ELSE newPass(this)

(***************************************************************************)
(* The instance and the calls made on it.  A call is one step: it leaves   *)
(* its arguments and its outcome in `call` until the caller takes them.    *)
(***************************************************************************)
Idle == [name |-> "none"]

This == [shortcuts_ |-> shortcuts_,
         activeContexts_ |-> activeContexts_,
         hasNoModShortcutsInActiveCtx_ |-> hasNoModShortcutsInActiveCtx_,
         autobind_ |-> autobind_,
         systemMod_ |-> systemMod_]

Becomes(this) ==
    /\ shortcuts_' = this.shortcuts_
    /\ activeContexts_' = this.activeContexts_
    /\ hasNoModShortcutsInActiveCtx_' = this.hasNoModShortcutsInActiveCtx_
    /\ autobind_' = this.autobind_
    /\ systemMod_' = this.systemMod_

ContextNames == {<<"a">>, <<"b">>}

Str_KeyA == <<"K", "e", "y", "A">>
Str_Escape == <<"E", "s", "c", "a", "p", "e">>
Str_CapsLock == <<"C", "a", "p", "s", "L", "o", "c", "k">>
Str_KeyK == <<"K", "e", "y", "K">>

\* a handler that leaves the instance alone
Handler(name) == [name |-> name, does |-> "nothing", contexts |-> <<>>, shortcuts |-> <<>>]

ShortcutOptions(key, mod, handler, context) ==
    [key |-> key, mod |-> mod, handler |-> handler, context |-> context,
     noDefaultPrevent |-> FALSE, noPropagationStop |-> FALSE]

PlainA == ShortcutOptions(<<"a">>, JUndefined, Handler("plainA"), JUndefined)
CtrlA == ShortcutOptions(<<"A">>, JStr("ctrl"), Handler("ctrlA"), JFalse)
SystemA == ShortcutOptions(<<"A">>, JArr(<<"ctrl", "system">>), Handler("systemA"), JArr(<<>>))
ShiftAltA == ShortcutOptions(<<"a">>, JArr(<<"shift", "alt">>), Handler("shiftAltA"),
                             JArr(<<JStr(<<"a">>)>>))
PlainEscape == ShortcutOptions(Str_Escape, JUndefined, Handler("plainEscape"), JUndefined)
PredicateA == ShortcutOptions(<<"A">>, JArr(<<"ctrl">>), Handler("predicateA"),
                              JFn("includes a"))
MetaA == ShortcutOptions(<<"A">>, JArr(<<"meta">>),
                         [name |-> "metaA", does |-> "activateContext",
                          contexts |-> <<<<"b">>>>, shortcuts |-> <<>>],
                         JStr(<<"!", "b">>))

\* bound to the physical key A, whatever character it types
CodeKeyA == ShortcutOptions(<<"c", "o", "d", "e", ":">> \o Str_KeyA, JUndefined,
                            Handler("codeKeyA"), JUndefined)
\* the two shortcuts of a combo: ctrl+K activates the context that gates the second one
ComboK == ShortcutOptions(<<"K">>, JArr(<<"ctrl">>),
                          [name |-> "comboK", does |-> "activateContext",
                           contexts |-> <<<<"b">>>>, shortcuts |-> <<>>],
                          JUndefined)
GatedA == ShortcutOptions(<<"A">>, JUndefined, Handler("gatedA"), JArr(<<JStr(<<"b">>)>>))
\* handlers that change the shortcuts of the key they are bound to
RemoverA == ShortcutOptions(<<"A">>, JUndefined,
                            [name |-> "removerA", does |-> "remove",
                             contexts |-> <<>>, shortcuts |-> <<>>],
                            JUndefined)
AdderA == ShortcutOptions(<<"A">>, JUndefined,
                          [name |-> "adderA", does |-> "add",
                           contexts |-> <<>>, shortcuts |-> <<PlainA>>],
                          JUndefined)

Catalogue == {PlainA, CtrlA, SystemA, ShiftAltA, PlainEscape, PredicateA, MetaA,
              CodeKeyA, GatedA}

\* the arguments of add: one shortcut, or a shortcut followed by another
AddBatches == {<<s>> : s \in Catalogue} \cup {<<PlainA, s>> : s \in {CtrlA, PredicateA}}

RemoveCallbacks == {[by |-> "all"], [by |-> "handler", name |-> "plainA"]}

RemoveKeys == {JUndefined, JStr(<<"a">>)}

ContextArgs == {<<<<"a">>>>, <<<<"b">>>>, <<<<"b">>, <<"a">>>>}

Modifiers == {"ctrl", "meta", "shift", "alt"}

KeyboardEvents(keys) ==
    {[key |-> k[1], code |-> k[2], ctrlKey |-> c, metaKey |-> m, shiftKey |-> s, altKey |-> a] :
        k \in keys, c \in BOOLEAN, m \in BOOLEAN, s \in BOOLEAN, a \in BOOLEAN}

\* the held modifiers of an event, as a set
Held(e) == {m \in Modifiers : \/ m = "ctrl" /\ e.ctrlKey
                              \/ m = "meta" /\ e.metaKey
                              \/ m = "shift" /\ e.shiftKey
                              \/ m = "alt" /\ e.altKey}

\* the letter A with every combination of modifiers, Escape, Escape typed on a
\* key whose physical code is another one, and the letter K with or without ctrl
Events ==
    KeyboardEvents({<<<<"a">>, Str_KeyA>>})
    \cup {e \in KeyboardEvents({<<Str_Escape, Str_Escape>>, <<Str_Escape, Str_CapsLock>>}) :
             Held(e) \subseteq {"shift"}}
    \cup {e \in KeyboardEvents({<<<<"k">>, Str_KeyK>>}) : Held(e) \subseteq {"ctrl"}}

\* the options of an instance whose caller binds handleKeydown itself
ConstructorOptions ==
    {[systemMod |-> m, activeContexts |-> c, noAutoBind |-> TRUE, shortcuts |-> s] :
        m \in {"ctrl", "meta"}, c \in {JUndefined, JArr(<<<<"a">>>>)},
        s \in {JUndefined, JArr(<<PlainA>>)}}

Init ==
    /\ \E options \in ConstructorOptions :
          /\ constructor(options).thrown = "none"
          /\ shortcuts_ = constructor(options).this.shortcuts_
          /\ activeContexts_ = constructor(options).this.activeContexts_
          /\ hasNoModShortcutsInActiveCtx_ =
                 constructor(options).this.hasNoModShortcutsInActiveCtx_
          /\ autobind_ = constructor(options).this.autobind_
          /\ systemMod_ = constructor(options).this.systemMod_
          /\ listeners = addEventListener({}, "this", constructor(options).this)
    /\ call = Idle
    /\ fn = Idle
    /\ twin = Idle

\* add is called with one of `batches` on an instance that holds at most `max` records
\* when the call returns
AddUpTo(batches, max) ==
    /\ call = Idle
    /\ \E shortcuts \in batches :
          /\ Cardinality(Stored(shortcuts_)) + Len(shortcuts) <= max
          /\ LET added == add(This, shortcuts)
             IN  /\ Becomes(added.this)
                 /\ call' = [name |-> "add", shortcuts |-> shortcuts,
                             thrown |-> added.thrown]
    /\ UNCHANGED <<fn, twin, listeners>>

\* add is called with one of `batches`
AddOf(batches) == AddUpTo(batches, MaxShortcuts)

Add == AddOf(AddBatches)

Remove ==
    /\ call = Idle
    /\ \E callback \in RemoveCallbacks, keys \in RemoveKeys :
          LET removed == remove(This, callback, keys)
          IN  /\ Becomes(removed.this)
              /\ call' = [name |-> "remove", removeShortcut |-> callback, keys |-> keys,
                          ret |-> removed.ret, thrown |-> "none"]
    /\ UNCHANGED <<fn, twin, listeners>>

ActivateContext ==
    /\ call = Idle
    /\ \E contexts \in ContextArgs :
          /\ Becomes(activateContext(This, contexts).this)
          /\ call' = [name |-> "activateContext", contexts |-> contexts,
                      thrown |-> activateContext(This, contexts).thrown]
    /\ UNCHANGED <<fn, twin, listeners>>

SetActiveContexts ==
    /\ call = Idle
    /\ \E contexts \in ContextArgs \cup {<<>>} :
          /\ Becomes(setActiveContexts(This, contexts).this)
          /\ call' = [name |-> "setActiveContexts", contexts |-> contexts,
                      thrown |-> setActiveContexts(This, contexts).thrown]
    /\ UNCHANGED <<fn, twin, listeners>>

DeactivateContext ==
    /\ call = Idle
    /\ \E contexts \in ContextArgs :
          /\ Becomes(deactivateContext(This, contexts).this)
          /\ call' = [name |-> "deactivateContext", contexts |-> contexts, thrown |-> "none"]
    /\ UNCHANGED <<fn, twin, listeners>>

Destroy ==
    /\ call = Idle
    /\ Becomes(destroy(This).this)
    /\ listeners' = IF destroy(This).unbinds THEN listeners \ {"this"} ELSE listeners
    /\ call' = [name |-> "destroy", thrown |-> "none"]
    /\ UNCHANGED <<fn, twin>>

\* a keydown event reaches handleKeydown.  `before` is the instance the call started on.
\* The handlers called do not grow an instance that holds at most MaxShortcuts records
\* beyond them.
HandleKeydown ==
    /\ call = Idle
    /\ \E e \in Events :
          LET pass == handleKeydown(This, e)
          IN  /\ \/ Cardinality(Stored(pass.this.shortcuts_)) <= MaxShortcuts
                  \/ pass.this.shortcuts_ = shortcuts_
              /\ Becomes(pass.this)
              /\ call' = [name |-> "handleKeydown", e |-> e, before |-> This,
                          ret |-> pass.ret,
                          fired |-> pass.fired,
                          evaluated |-> pass.evaluated,
                          observed |-> pass.observed,
                          defaultPrevented |-> pass.defaultPrevented,
                          propagationStopped |-> pass.propagationStopped,
                          thrown |-> "none"]
    /\ UNCHANGED <<fn, twin, listeners>>

\* the caller has taken the outcome of the call
Return ==
    /\ call # Idle
    /\ call' = Idle
    /\ UNCHANGED <<shortcuts_, activeContexts_, hasNoModShortcutsInActiveCtx_, autobind_,
                   systemMod_, fn, twin, listeners>>

Next ==
    \/ Add
    \/ Remove
    \/ ActivateContext
    \/ SetActiveContexts
    \/ DeactivateContext
    \/ Destroy
    \/ HandleKeydown
    \/ Return

Spec == Init /\ [][Next]_vars

(***************************************************************************)
(* An instance whose handlers call its public methods while a dispatch is  *)
(* in progress.                                                            *)
(***************************************************************************)
ReentrantBatches == {<<s>> : s \in {PlainA, GatedA, ComboK, RemoverA, AdderA}}

NextReentrant ==
    \/ AddOf(ReentrantBatches)
    \/ DeactivateContext
    \/ HandleKeydown
    \/ Return

SpecReentrant == Init /\ [][NextReentrant]_vars

(***************************************************************************)
(* Two instances constructed with the same options and given the same      *)
(* shortcuts.  add and remove are called on both with the same arguments,  *)
(* the active contexts of each are changed on their own, and a keydown     *)
(* event is handled by both.                                               *)
(***************************************************************************)
TwinOptions ==
    {options \in ConstructorOptions :
        options.noAutoBind /\ options.activeContexts = JUndefined
        /\ options.shortcuts = JUndefined}

TwinBatches == {<<PlainA>>, <<GatedA>>, <<MetaA>>, <<PlainA, PredicateA>>}

Instances == {"this", "twin"}

\* the call leaves `after` behind in the instance `on`
BecomesOn(on, after) ==
    IF on = "this" THEN Becomes(after) /\ UNCHANGED twin
    ELSE /\ twin' = after
         /\ UNCHANGED <<shortcuts_, activeContexts_, hasNoModShortcutsInActiveCtx_,
                        autobind_, systemMod_>>

\* the instance `on`
InstanceOf(on) == IF on = "this" THEN This ELSE twin

InitTwin ==
    /\ \E options \in TwinOptions :
          /\ constructor(options).thrown = "none"
          /\ shortcuts_ = constructor(options).this.shortcuts_
          /\ activeContexts_ = constructor(options).this.activeContexts_
          /\ hasNoModShortcutsInActiveCtx_ =
                 constructor(options).this.hasNoModShortcutsInActiveCtx_
          /\ autobind_ = constructor(options).this.autobind_
          /\ systemMod_ = constructor(options).this.systemMod_
          /\ twin = constructor(options).this
          /\ listeners = addEventListener(addEventListener({}, "this", constructor(options).this),
                                          "twin", constructor(options).this)
    /\ call = Idle
    /\ fn = Idle

TwinAdd ==
    /\ call = Idle
    /\ \E shortcuts \in TwinBatches :
          /\ Cardinality(Stored(shortcuts_)) + Len(shortcuts) <= MaxShortcuts
          /\ Becomes(add(This, shortcuts).this)
          /\ twin' = add(twin, shortcuts).this
          /\ call' = [name |-> "add", shortcuts |-> shortcuts,
                      thrown |-> add(This, shortcuts).thrown]
    /\ UNCHANGED <<fn, listeners>>

TwinRemove ==
    /\ call = Idle
    /\ \E callback \in RemoveCallbacks, keys \in RemoveKeys :
          /\ Becomes(remove(This, callback, keys).this)
          /\ twin' = remove(twin, callback, keys).this
          /\ call' = [name |-> "remove", removeShortcut |-> callback, keys |-> keys,
                      ret |-> remove(This, callback, keys).ret, thrown |-> "none"]
    /\ UNCHANGED <<fn, listeners>>

TwinActivateContext ==
    /\ call = Idle
    /\ \E on \in Instances, contexts \in ContextArgs :
          /\ BecomesOn(on, activateContext(InstanceOf(on), contexts).this)
          /\ call' = [name |-> "activateContext", on |-> on, contexts |-> contexts,
                      thrown |-> activateContext(InstanceOf(on), contexts).thrown]
    /\ UNCHANGED <<fn, listeners>>

TwinSetActiveContexts ==
    /\ call = Idle
    /\ \E on \in Instances, contexts \in ContextArgs \cup {<<>>} :
          /\ BecomesOn(on, setActiveContexts(InstanceOf(on), contexts).this)
          /\ call' = [name |-> "setActiveContexts", on |-> on, contexts |-> contexts,
                      thrown |-> setActiveContexts(InstanceOf(on), contexts).thrown]
    /\ UNCHANGED <<fn, listeners>>

TwinDeactivateContext ==
    /\ call = Idle
    /\ \E on \in Instances, contexts \in ContextArgs :
          /\ BecomesOn(on, deactivateContext(InstanceOf(on), contexts).this)
          /\ call' = [name |-> "deactivateContext", on |-> on, contexts |-> contexts,
                      thrown |-> "none"]
    /\ UNCHANGED <<fn, listeners>>

\* the same keydown event reaches handleKeydown of both instances
TwinHandleKeydown ==
    /\ call = Idle
    /\ \E e \in Events :
          /\ Becomes(handleKeydown(This, e).this)
          /\ twin' = handleKeydown(twin, e).this
          /\ call' = [name |-> "handleKeydown", e |-> e, before |-> This,
                      ret |-> handleKeydown(This, e).ret,
                      fired |-> handleKeydown(This, e).fired,
                      twinBefore |-> twin,
                      twinFired |-> handleKeydown(twin, e).fired,
                      thrown |-> "none"]
    /\ UNCHANGED <<fn, listeners>>

TwinReturn ==
    /\ call # Idle
    /\ call' = Idle
    /\ UNCHANGED <<shortcuts_, activeContexts_, hasNoModShortcutsInActiveCtx_, autobind_,
                   systemMod_, fn, twin, listeners>>

NextTwin ==
    \/ TwinAdd
    \/ TwinRemove
    \/ TwinActivateContext
    \/ TwinSetActiveContexts
    \/ TwinDeactivateContext
    \/ TwinHandleKeydown
    \/ TwinReturn

SpecTwin == InitTwin /\ [][NextTwin]_vars

(***************************************************************************)
(* Direct calls of the exported functions.  The arguments are drawn in the *)
(* initial state and the call is one step.                                 *)
(***************************************************************************)
Refs == {JStr(c) : c \in ContextNames} \cup {JStr(<<"!">> \o c) : c \in ContextNames}

\* every list of distinct elements of S
ListsOf(S) ==
    {l \in UNION {[1..n -> S] : n \in 0..Cardinality(S)} :
        \A i, j \in 1..Len(l) : i # j => l[i] # l[j]}

ArrTerms(k) == {JArr(l) : l \in [1..k -> Refs]}

\* the OR-terms that hold k references: a string or an AND-group
TermsWith(k) == IF k = 1 THEN Refs \cup ArrTerms(1) ELSE ArrTerms(k)

\* the lists of at most t OR-terms that hold at most r references together
RECURSIVE Exprs(_, _)
Exprs(t, r) ==
    {<<>>} \cup
    (IF t = 0 THEN {}
     ELSE UNION {{<<term>> \o rest : term \in TermsWith(k), rest \in Exprs(t - 1, r - k)} :
                 k \in 0..r})

\* the instance is not involved in a direct call
NoInstance ==
    /\ shortcuts_ = <<>>
    /\ activeContexts_ = <<>>
    /\ hasNoModShortcutsInActiveCtx_ = FALSE
    /\ autobind_ = FALSE
    /\ systemMod_ = "ctrl"
    /\ call = Idle
    /\ twin = Idle
    /\ listeners = {}

InstanceUnchanged ==
    UNCHANGED <<shortcuts_, activeContexts_, hasNoModShortcutsInActiveCtx_, autobind_,
                systemMod_, call, twin, listeners>>

InitCtx ==
    /\ NoInstance
    /\ \E active \in ListsOf(ContextNames), expr \in Exprs(MaxTerms, MaxRefs) :
          fn = [name |-> "checkContext", activeContexts |-> active,
                inputContext |-> JArr(expr), done |-> FALSE, result |-> FALSE]

CallCheckContext ==
    /\ fn.name = "checkContext"
    /\ ~fn.done
    /\ fn' = [fn EXCEPT !.done = TRUE,
                        !.result = checkContext(fn.activeContexts, fn.inputContext)]
    /\ InstanceUnchanged

NextCtx == CallCheckContext

SpecCtx == InitCtx /\ [][NextCtx]_vars

\* the lists of at most n distinct modifier names
ModLists(n) == {l \in ListsOf({"system"} \cup Modifiers) : Len(l) <= n}

InitMod ==
    /\ NoInstance
    /\ \E e \in KeyboardEvents({<<<<"a">>, <<"K", "e", "y", "A">>>>}),
          target \in ModLists(MaxMods), systemKey \in Modifiers :
          fn = [name |-> "checkModifiersMatch", input |-> getModifiers(e), target |-> target,
                systemKey |-> systemKey, done |-> FALSE, result |-> FALSE]

CallCheckModifiersMatch ==
    /\ fn.name = "checkModifiersMatch"
    /\ ~fn.done
    /\ fn' = [fn EXCEPT !.done = TRUE,
                        !.result = checkModifiersMatch(fn.input, fn.target, fn.systemKey)]
    /\ InstanceUnchanged

NextMod == CallCheckModifiersMatch

SpecMod == InitMod /\ [][NextMod]_vars

(***************************************************************************)
(* The meaning of a context expression, stated over sets.                  *)
(***************************************************************************)
SetOf(list) == {list[i] : i \in 1..Len(list)}

TermRefs(term) == IF isArray(term) THEN {r.v : r \in SetOf(term.v)} ELSE {term.v}

Affirmed(term) == {r \in TermRefs(term) : ~startsWith(r, "!")}

Negated(term) == {substring1(r) : r \in {q \in TermRefs(term) : startsWith(q, "!")}}

\* all affirmed contexts of the term are active (or it has none) and a negated one is active
Vetoes(A, term) == Affirmed(term) \subseteq A /\ Negated(term) \cap A # {}

\* the term holds: its affirmed contexts are active, its negated ones are not, and it is
\* not made of negations only (the empty group is an inclusion)
IsInclusion(A, term) ==
    /\ Affirmed(term) \subseteq A
    /\ Negated(term) \cap A = {}
    /\ (Affirmed(term) # {} \/ Negated(term) = {})

\* the term is made of negations only and none of its negated contexts is active
IsClearNegation(A, term) ==
    Affirmed(term) = {} /\ Negated(term) # {} /\ Negated(term) \cap A = {}

\* the term read as the AND of its references
TermHolds(A, term) == Affirmed(term) \subseteq A /\ Negated(term) \cap A = {}

CtxDone == fn.name = "checkContext" /\ fn.done
CtxActive == SetOf(fn.activeContexts)
CtxTerms == SetOf(fn.inputContext.v)

\* C1: if some OR-term has all its affirmed contexts active (or none) and one of its
\* negated contexts active, checkContext returns false whatever the other terms are.
C1_NegationVeto ==
    (CtxDone /\ \E term \in CtxTerms : Vetoes(CtxActive, term)) => fn.result = FALSE

\* a vetoing term next to an inclusion whose contexts are all active
C1_Witness ==
    /\ CtxDone
    /\ \E term \in CtxTerms : Vetoes(CtxActive, term)
    /\ \E term \in CtxTerms : Affirmed(term) # {} /\ IsInclusion(CtxActive, term)
    /\ fn.result = FALSE

C2_Expected ==
    IF \E term \in CtxTerms : Vetoes(CtxActive, term) THEN FALSE
    ELSE IF \E term \in CtxTerms : IsInclusion(CtxActive, term) THEN TRUE
    ELSE /\ \E term \in CtxTerms : IsClearNegation(CtxActive, term)
         /\ \A term \in CtxTerms : Affirmed(term) = {}

\* C2 as claimed, for every list expression: true if a term is an inclusion and none
\* vetoes, else true only if a term is a clear negation and no term has an affirmation,
\* else false.  The empty list has no term and still matches.
C2_EveryList == CtxDone => fn.result = C2_Expected

\* C2, amended: the rule holds for every list expression that has at least one term.
C2_NonEmptyList == (CtxDone /\ Len(fn.inputContext.v) > 0) => fn.result = C2_Expected

\* active = {} with ['a', '!b'] is false
C2_Witness ==
    /\ CtxDone
    /\ fn.activeContexts = <<>>
    /\ fn.inputContext = JArr(<<JStr(<<"a">>), JStr(<<"!", "b">>)>>)
    /\ fn.result = FALSE

\* C3: checkContext is the boolean value of the expression, the OR over its terms of the
\* AND over the references of each term.
C3_BooleanValue ==
    CtxDone => fn.result = (\E term \in CtxTerms : TermHolds(CtxActive, term))

\* C4: when no term has an affirmation, checkContext is true iff no negated context of
\* the expression is active.
C4_NegationsOnly ==
    (CtxDone /\ \A term \in CtxTerms : Affirmed(term) = {})
        => fn.result = (\A term \in CtxTerms : Negated(term) \cap CtxActive = {})

\* two negated contexts, one of them active: no match
C4_Witness ==
    /\ CtxDone
    /\ \A term \in CtxTerms : Affirmed(term) = {}
    /\ \E term \in CtxTerms : Negated(term) \cap CtxActive # {}
    /\ \E term \in CtxTerms : Negated(term) \ CtxActive # {}
    /\ fn.result = FALSE

\* C6: an expression of exactly one AND-group is the AND of the group's references.
C6_SingleGroup ==
    (CtxDone /\ Len(fn.inputContext.v) = 1)
        => fn.result = TermHolds(CtxActive, fn.inputContext.v[1])

\* a group with an active affirmation and an inactive negation matches
C6_Witness ==
    /\ CtxDone
    /\ Len(fn.inputContext.v) = 1
    /\ isArray(fn.inputContext.v[1])
    /\ Affirmed(fn.inputContext.v[1]) # {}
    /\ Negated(fn.inputContext.v[1]) # {}
    /\ fn.result = TRUE

(***************************************************************************)
(* The virtual modifier.                                                   *)
(***************************************************************************)
\* the required modifiers as a set, 'system' replaced by the system modifier
Resolved(required, systemKey) ==
    IF "system" \in required THEN (required \ {"system"}) \cup {systemKey} ELSE required

ModDone == fn.name = "checkModifiersMatch" /\ fn.done

\* C9: checkModifiersMatch holds exactly when the held modifiers are the required ones
\* with 'system' removed and the system modifier added if absent.
C9_SystemResolution ==
    ModDone => fn.result = (SetOf(fn.input) = Resolved(SetOf(fn.target), fn.systemKey))

\* {ctrl, system} matches {ctrl} when the system modifier is ctrl
C9_Witness ==
    /\ ModDone
    /\ SetOf(fn.target) = {"ctrl", "system"}
    /\ fn.systemKey = "ctrl"
    /\ fn.input = <<"ctrl">>
    /\ fn.result = TRUE

(***************************************************************************)
(* Dispatch.                                                               *)
(***************************************************************************)
Dispatched == call.name = "handleKeydown"

\* the records the instance held when the call started
StoredBefore ==
    {call.before.shortcuts_[p[1]][p[2]] : p \in Stored(call.before.shortcuts_)}

\* the record is stored under the event's code or under its normalized key
KeyMatches(shortcut, e) ==
    \/ shortcut.key = <<"c", "o", "d", "e", ":">> \o e.code
    \/ shortcut.key = getShortcutKey(e.key, e.code)

ModifiersMatch(shortcut, e) == Held(e) = Resolved(SetOf(shortcut.mod), systemMod_)

IsGlobal(shortcut) == shortcut.context = JArr(<<>>)

\* C5: a shortcut registered with no context, context false or an empty list is global;
\* whatever the active contexts are, it fires on every event whose key and modifiers match.
C5_GlobalFires ==
    Dispatched =>
        \A shortcut \in StoredBefore :
            (IsGlobal(shortcut) /\ KeyMatches(shortcut, call.e) /\ ModifiersMatch(shortcut, call.e))
                => includes(call.fired, shortcut)

\* C7: a shortcut whose context is a predicate function is registered without an error.
C7_PredicateRegisters ==
    (call.name = "add" /\ call.shortcuts = <<PredicateA>>)
        => /\ call.thrown = "none"
           /\ \E shortcut \in {shortcuts_[p[1]][p[2]] : p \in Stored(shortcuts_)} :
                 shortcut.handler = PredicateA.handler

\* C8: a handler is invoked only when the modifiers held in the event are exactly the
\* resolved required modifiers of its shortcut.
C8_ExactModifiers ==
    Dispatched => \A i \in 1..Len(call.fired) : ModifiersMatch(call.fired[i], call.e)

\* one candidate fires while another, which requires a strict subset of the held
\* modifiers, is evaluated and does not
C8_Witness ==
    /\ Dispatched
    /\ Len(call.fired) > 0
    /\ \E i \in 1..Len(call.evaluated) :
          /\ Resolved(SetOf(call.evaluated[i].mod), systemMod_) # Held(call.e)
          /\ Resolved(SetOf(call.evaluated[i].mod), systemMod_) \subseteq Held(call.e)
          /\ ~includes(call.fired, call.evaluated[i])

\* C10: handleKeydown returns true iff at least one handler was invoked during the call.
C10_ReturnValue == Dispatched => (call.ret = (Len(call.fired) > 0))

\* candidates were evaluated, one fired and one did not, and the call returned true
C10_Witness ==
    /\ Dispatched
    /\ call.ret = TRUE
    /\ Len(call.fired) = 1
    /\ Len(call.evaluated) = 2

\* candidates were evaluated and none fired
C10_NoMatch == Dispatched /\ Len(call.evaluated) > 0 /\ Len(call.fired) = 0 /\ call.ret = FALSE

(***************************************************************************)
(* The dispatch pass.                                                      *)
(***************************************************************************)
\* Escape, F1-F12, PrintScreen and Insert
SpecialKeys ==
    {Str_Escape, <<"P", "r", "i", "n", "t", "S", "c", "r", "e", "e", "n">>,
     <<"I", "n", "s", "e", "r", "t">>}
    \cup {<<"F", d>> : d \in {"1", "2", "3", "4", "5", "6", "7", "8", "9"}}
    \cup {<<"F", "1", d>> : d \in {"0", "1", "2"}}

\* the call went past the typing optimization
Processed ==
    /\ Dispatched
    /\ \/ call.before.hasNoModShortcutsInActiveCtx_
       \/ call.e.ctrlKey \/ call.e.metaKey \/ call.e.altKey
       \/ call.e.code \in SpecialKeys

CodeKey(e) == <<"c", "o", "d", "e", ":">> \o e.code

\* the keys of the Map a pass on event e takes its candidates from
PassKeys(e) == {CodeKey(e), getShortcutKey(e.key, e.code)}

Under(list, key) == SelectSeq(list, LAMBDA shortcut : shortcut.key = key)

HandlersOf(list) == [i \in 1..Len(list) |-> list[i].handler]

\* candidate i of the pass matched when it was evaluated
MatchedAt(i) ==
    /\ ModifiersMatch(call.evaluated[i], call.e)
    /\ checkContext(call.observed[i], call.evaluated[i].context)

\* the evaluated records that matched, in the order of their evaluation
MatchedInOrder ==
    LET idx == SelectSeq([i \in 1..Len(call.evaluated) |-> i], MatchedAt)
    IN [j \in 1..Len(idx) |-> call.evaluated[idx[j]]]

\* a pass evaluates the whole list of each key, in the order the Map holds it, and
\* calls the handler of every record that matches, once, in that order
C11_Pass ==
    Processed =>
        /\ \A key \in PassKeys(call.e) :
              Under(call.evaluated, key) = getOrEmpty(call.before.shortcuts_, key)
        /\ \A i \in 1..Len(call.evaluated) : call.evaluated[i].key \in PassKeys(call.e)
        /\ call.fired = MatchedInOrder

\* add appends the handlers of its batch to the list of their key, in batch order
C11_Registered ==
    (call = Idle /\ call'.name = "add" /\ call'.thrown = "none") =>
        \A key \in DOMAIN shortcuts_' :
            HandlersOf(shortcuts_'[key]) =
                HandlersOf(getOrEmpty(shortcuts_, key))
                \o HandlersOf(SelectSeq(call'.shortcuts,
                                        LAMBDA s : sanitizeKeyValue(s.key) = key))

\* C11: in one dispatch pass every candidate whose modifiers and context match has its
\* handler invoked exactly once, the pass does not stop after the first match, and the
\* handlers registered under one key are invoked in the order of their registration.
C11_EveryMatchInOrder == []C11_Pass /\ [][C11_Registered]_vars

\* two records registered under one key by different handlers both fire in one pass,
\* in the order the Map holds them
C11_Witness ==
    /\ Dispatched
    /\ Len(call.fired) = 2
    /\ call.fired[1].key = call.fired[2].key
    /\ call.fired[1].handler # call.fired[2].handler
    /\ call.fired = getOrEmpty(call.before.shortcuts_, call.fired[1].key)

\* C12: for an event with code C and normalized key K the records registered under
\* 'code:C' are evaluated and fired before the records registered under K, and the
\* matching records of both lists fire in the same pass.
C12_CodeFirst ==
    Processed =>
        /\ call.evaluated =
               getOrEmpty(call.before.shortcuts_, CodeKey(call.e))
               \o getOrEmpty(call.before.shortcuts_, getShortcutKey(call.e.key, call.e.code))
        /\ \A i, j \in 1..Len(call.fired) :
              (/\ call.fired[i].key = CodeKey(call.e)
               /\ call.fired[j].key = getShortcutKey(call.e.key, call.e.code)) => i < j
        /\ \A i \in 1..Len(call.evaluated) :
              MatchedAt(i) => includes(call.fired, call.evaluated[i])

\* a record bound to the code and a record bound to the key fire in one pass, the
\* code-bound one first
C12_Witness ==
    /\ Dispatched
    /\ Len(call.fired) = 2
    /\ call.fired[1].key = CodeKey(call.e)
    /\ call.fired[2].key = getShortcutKey(call.e.key, call.e.code)

(***************************************************************************)
(* The typing optimization.                                                *)
(***************************************************************************)
\* C13: the typing optimization never changes what fires: the handlers handleKeydown
\* invokes are those that full processing without the fast-path check would invoke.
C13_SameAsFullProcessing ==
    Dispatched => call.fired = fullProcessing(call.before, call.e).fired

\* the value the cached flag stands for: some record stored under a key that is not a
\* special key matches the active contexts and requires no modifier other than shift
Recomputed(shortcuts, activeContexts) ==
    \E key \in DOMAIN shortcuts : \E i \in 1..Len(shortcuts[key]) :
        /\ key \notin SpecialKeys
        /\ checkContext(activeContexts, shortcuts[key][i].context)
        /\ SetOf(shortcuts[key][i].mod) \subseteq {"shift"}

\* the public operations that change the shortcuts or the active contexts
Operations ==
    {"add", "remove", "activateContext", "deactivateContext", "setActiveContexts", "destroy"}

\* a handler of the call called a public operation of the instance
HandlerOperated ==
    /\ Dispatched
    /\ \E i \in 1..Len(call.fired) : call.fired[i].handler.does # "nothing"

\* C14: after every completed public operation, also when a handler called it, the
\* cached flag equals the recomputed value.  The instance the constructor returns is
\* the initial state, where no call was made yet.
C14_FlagRecomputed ==
    (\/ call.name \in Operations /\ call.thrown = "none"
     \/ HandlerOperated
     \/ call = Idle /\ Init)
        => hasNoModShortcutsInActiveCtx_ = Recomputed(shortcuts_, activeContexts_)

\* a handler activated a context during a dispatch and the flag, false when the call
\* started, is true when it returns
C14_Witness ==
    /\ HandlerOperated
    /\ ~call.before.hasNoModShortcutsInActiveCtx_
    /\ hasNoModShortcutsInActiveCtx_
    /\ call.before.shortcuts_ = shortcuts_

\* the records stored under the keys of the event when the call started
CandidatesBefore ==
    {shortcut \in StoredBefore : shortcut.key \in PassKeys(call.e)}

\* C15: handleKeydown looks the event up and evaluates the records found iff the cached
\* flag is true, or ctrl, meta or alt is held, or the code of the event is a special
\* key; otherwise it returns false and evaluates no record.
C15_FastPath ==
    Dispatched =>
        IF \/ call.before.hasNoModShortcutsInActiveCtx_
           \/ Held(call.e) \cap {"ctrl", "meta", "alt"} # {}
           \/ call.e.code \in SpecialKeys
        THEN SetOf(call.evaluated) = CandidatesBefore
        ELSE call.evaluated = <<>> /\ call.fired = <<>> /\ call.ret = FALSE

\* only a ctrl-modified shortcut is registered and an unmodified letter is typed: the
\* record stored under the letter is not evaluated
C15_Witness ==
    /\ Dispatched
    /\ Held(call.e) = {}
    /\ \E shortcut \in CandidatesBefore : shortcut.mod = <<"ctrl">>
    /\ \A shortcut \in StoredBefore : shortcut.mod = <<"ctrl">>
    /\ call.evaluated = <<>>
    /\ call.ret = FALSE

\* a record with no modifier is active as well and the same event is evaluated
C15_Evaluated ==
    /\ Dispatched
    /\ Held(call.e) = {}
    /\ call.e.code \notin SpecialKeys
    /\ \E shortcut \in CandidatesBefore : shortcut.mod = <<"ctrl">>
    /\ Len(call.evaluated) = 2

(***************************************************************************)
(* Handlers that call the instance during a pass.                          *)
(***************************************************************************)
\* the last handler of the call that called remove, 0 if none did
LastRemove ==
    LET removers == {i \in 1..Len(call.fired) : call.fired[i].handler.does = "remove"}
    IN IF removers = {} THEN 0 ELSE CHOOSE i \in removers : \A j \in removers : j <= i

\* the shortcuts the handlers of the call added after the last remove, in order
AddedAfterRemove ==
    LET adders == SelectSeq([i \in 1..Len(call.fired) |-> i],
                            LAMBDA i : i > LastRemove /\ call.fired[i].handler.does = "add")
        RECURSIVE batches(_)
        batches(j) == IF j > Len(adders) THEN <<>>
                      ELSE call.fired[adders[j]].handler.shortcuts \o batches(j + 1)
    IN batches(1)

\* C16: the candidate list of a pass is fixed when the pass starts.  When a handler of
\* the pass removes or adds records of the key being dispatched, every candidate of the
\* start is still evaluated once, in its order, no added record is evaluated, nothing
\* is thrown, and the Map the next dispatch reads holds the removal and the addition.
C16_Snapshot ==
    (Dispatched /\ \E i \in 1..Len(call.fired) : call.fired[i].handler.does \in {"remove", "add"})
        => /\ call.evaluated =
                  getOrEmpty(call.before.shortcuts_, CodeKey(call.e))
                  \o getOrEmpty(call.before.shortcuts_,
                                getShortcutKey(call.e.key, call.e.code))
           /\ call.thrown = "none"
           /\ \A key \in DOMAIN shortcuts_ :
                 HandlersOf(shortcuts_[key]) =
                     (IF LastRemove = 0 THEN HandlersOf(getOrEmpty(call.before.shortcuts_, key))
                      ELSE <<>>)
                     \o HandlersOf(SelectSeq(AddedAfterRemove,
                                             LAMBDA s : sanitizeKeyValue(s.key) = key))

\* the first handler of the pass removes every record, the second candidate, removed
\* by then, is evaluated and fires all the same, and the record it adds to the key
\* being dispatched is stored and is not evaluated in the pass
C16_Witness ==
    /\ Dispatched
    /\ Len(call.evaluated) = 2
    /\ Len(call.fired) = 2
    /\ call.fired[1].handler.does = "remove"
    /\ call.fired[2].handler.does = "add"
    /\ HandlersOf(shortcuts_[<<"A">>]) = <<PlainA.handler>>
    /\ ModifiersMatch(shortcuts_[<<"A">>][1], call.e)

\* C17: a change of the active contexts made by a handler during a pass is not observed
\* by the remaining candidates of the pass: whether a candidate fires is decided by the
\* active contexts as they were when the pass began.
C17_ContextsOfThePassStart ==
    Dispatched =>
        call.fired =
            SelectSeq(call.evaluated,
                      LAMBDA shortcut :
                          /\ ModifiersMatch(shortcut, call.e)
                          /\ checkContext(call.before.activeContexts_, shortcut.context))

\* the context the combo goes through
ComboContext == <<"b">>

\* the event matches the key and the modifiers of the shortcut
Matches(shortcut, e) ==
    /\ getShortcutKey(e.key, e.code) = toUpperCase(shortcut.key)
    /\ Held(e) = SetOf(getArrayFromProp(shortcut.mod))

FiredHandlers == {call.fired[i].handler : i \in 1..Len(call.fired)}

\* C18: with ctrl+K whose handler activates context X and a second shortcut gated by
\* [X], the handler of the second shortcut does not fire on a matching event dispatched
\* while X is inactive and fires on a matching event dispatched while X is active; the
\* ctrl+K event makes X active and deactivateContext(X) makes it inactive.
C18_Combo ==
    /\ (Dispatched /\ GatedA.handler \in {s.handler : s \in StoredBefore}) =>
           (GatedA.handler \in FiredHandlers
                <=> /\ Matches(GatedA, call.e)
                    /\ includes(call.before.activeContexts_, ComboContext))
    /\ (Dispatched /\ ComboK.handler \in {s.handler : s \in StoredBefore} /\ Matches(ComboK, call.e)) =>
           /\ ComboK.handler \in FiredHandlers
           /\ includes(activeContexts_, ComboContext)
    /\ (call.name = "deactivateContext" /\ includes(call.contexts, ComboContext)) =>
           ~includes(activeContexts_, ComboContext)

\* ctrl+K was dispatched and activated the context, and the event that follows fires
\* the gated shortcut
C18_Witness ==
    /\ Dispatched
    /\ Matches(GatedA, call.e)
    /\ ComboK.handler \in {s.handler : s \in StoredBefore}
    /\ includes(call.before.activeContexts_, ComboContext)
    /\ FiredHandlers = {GatedA.handler}

\* the context was deactivated and the matching event does not fire the gated shortcut
C18_Inactive ==
    /\ Dispatched
    /\ Matches(GatedA, call.e)
    /\ {s.handler : s \in StoredBefore} = {ComboK.handler, GatedA.handler}
    /\ ~includes(call.before.activeContexts_, ComboContext)
    /\ FiredHandlers = {}

(***************************************************************************)
(* Two instances.                                                          *)
(***************************************************************************)
\* C19: history independence.  Two instances hold the same shortcuts; when the calls of
\* activateContext, deactivateContext and setActiveContexts made on each leave the same
\* set of active contexts, in whatever order, a key event fires the same handlers in both.
C19_HistoryIndependence ==
    (/\ Dispatched
     /\ call.twinBefore.shortcuts_ = call.before.shortcuts_
     /\ SetOf(call.twinBefore.activeContexts_) = SetOf(call.before.activeContexts_))
        => call.twinFired = call.fired

(***************************************************************************)
(* remove.                                                                 *)
(***************************************************************************)
\* the call of remove that a step makes deletes this record
Deleted(shortcut, removeCall) ==
    /\ \/ removeCall.keys = JUndefined
       \/ shortcut.key \in {sanitizeKeyValue(key) : key \in SetOf(getArrayFromProp(removeCall.keys))}
    /\ removeShortcut(removeCall.removeShortcut, shortcut)

\* the step is a call of remove
RemoveStep == call = Idle /\ call'.name = "remove"

\* remove deletes the records its callback selects under the selected keys, and no other
C20_DeletesSelected ==
    RemoveStep =>
        /\ DOMAIN shortcuts_' = DOMAIN shortcuts_
        /\ \A key \in DOMAIN shortcuts_ :
              shortcuts_'[key] = SelectSeq(shortcuts_[key], LAMBDA s : ~Deleted(s, call'))

\* remove returns the number of records it deleted
C20_ReturnsCount ==
    RemoveStep =>
        call'.ret = Cardinality({p \in Stored(shortcuts_) :
                                    Deleted(shortcuts_[p[1]][p[2]], call')})

\* on every event, the dispatch after the call fires what the dispatch before the call
\* fired, less the deleted records
C20_SurvivorsFireAsBefore ==
    RemoveStep =>
        \A e \in Events :
            handleKeydown(This', e).fired =
                SelectSeq(handleKeydown(This, e).fired, LAMBDA s : ~Deleted(s, call'))

\* C20: remove(removeShortcut, keys) deletes exactly the stored records, under the
\* selected keys, for which removeShortcut returns true and returns their number; after
\* it returns no deleted record fires and every surviving record fires as before.
C20_Remove ==
    [][C20_DeletesSelected /\ C20_ReturnsCount /\ C20_SurvivorsFireAsBefore]_vars

(***************************************************************************)
(* An instance whose shortcuts are removed by key.  The keys argument of   *)
(* remove is given in the case the key was registered in and in another.   *)
(***************************************************************************)
RemoveBatches ==
    {<<s>> : s \in {PlainA, CtrlA, SystemA, PlainEscape}} \cup {<<PlainA, CtrlA>>}

KeyFilters ==
    {JUndefined, JStr(<<"a">>), JStr(<<"A">>), JArr(<<<<"A">>>>), JStr(Str_Escape),
     JStr(<<"e", "s", "c", "a", "p", "e">>), JArr(<<<<"e", "s", "c", "a", "p", "e">>, <<"a">>>>)}

\* remove is called; `before` is the instance the call started on
RemoveByKey ==
    /\ call = Idle
    /\ \E callback \in RemoveCallbacks, keys \in KeyFilters :
          LET removed == remove(This, callback, keys)
          IN  /\ Becomes(removed.this)
              /\ call' = [name |-> "remove", removeShortcut |-> callback, keys |-> keys,
                          before |-> This, ret |-> removed.ret, tested |-> removed.tested,
                          thrown |-> "none"]
    /\ UNCHANGED <<fn, twin, listeners>>

NextRemove ==
    \/ AddUpTo(RemoveBatches, MaxRemovable)
    \/ RemoveByKey
    \/ Return

SpecRemove == Init /\ [][NextRemove]_vars

(***************************************************************************)
(* remove                                                                  *)
(***************************************************************************)
Removed == call.name = "remove"

\* the strings of the keys argument
KeysGiven == IF isArray(call.keys) THEN SetOf(call.keys.v)
             ELSE IF call.keys.t = "string" THEN {call.keys.v}
             ELSE {}

\* the two strings differ in letter case at most
SameButCase(s, t) == toUpperCase(s) = toUpperCase(t)

\* the records the Map held under `key` that the callback does not select
Survivors(key) ==
    SelectSeq(call.before.shortcuts_[key], LAMBDA v : ~removeShortcut(call.removeShortcut, v))

\* C21: when remove is given a key that differs from a key of the Map in letter case
\* at most, the records of that key which the callback selects are removed.
C21_KeysCaseInsensitive ==
    Removed =>
        \A key \in DOMAIN call.before.shortcuts_ :
            (\E k \in KeysGiven : SameButCase(k, key)) => shortcuts_[key] = Survivors(key)

\* `s` is `t` with some elements deleted: the elements of s are elements of t, in the
\* order t holds them
RECURSIVE IsSubsequence(_, _)
IsSubsequence(s, t) ==
    IF Len(s) = 0 THEN TRUE
    ELSE IF Len(t) = 0 THEN FALSE
    ELSE IF Head(s) = Head(t) THEN IsSubsequence(Tail(s), Tail(t))
    ELSE IsSubsequence(s, Tail(t))

IsPrefix(s, t) == Len(s) <= Len(t) /\ SubSeq(t, 1, Len(s)) = s

\* the keys of the Map that the keys argument of the call names
Named(removeCall, map) ==
    IF removeCall.keys.t = "undefined" THEN DOMAIN map
    ELSE {key \in DOMAIN map :
             \E k \in (IF isArray(removeCall.keys) THEN SetOf(removeCall.keys.v)
                       ELSE {removeCall.keys.v}) : sanitizeKeyValue(k) = key}

\* a call of remove deletes records and moves none; it leaves the keys it was not given
\* as they were, passes none of their records to the callback, and leaves the active
\* contexts alone
C22_RemoveFrame ==
    (call = Idle /\ call'.name = "remove") =>
        /\ DOMAIN shortcuts_' = DOMAIN shortcuts_
        /\ \A key \in DOMAIN shortcuts_ : IsSubsequence(shortcuts_'[key], shortcuts_[key])
        /\ \A key \in DOMAIN shortcuts_ \ Named(call', shortcuts_) :
              /\ shortcuts_'[key] = shortcuts_[key]
              /\ \A record \in call'.tested : record[1] # key
        /\ activeContexts_' = activeContexts_

\* a call of add puts the new records after the ones each key holds
C22_AddAppends ==
    (call = Idle /\ call'.name = "add") =>
        \A key \in DOMAIN shortcuts_ : IsPrefix(shortcuts_[key], shortcuts_'[key])

\* C22: remove never reorders and never touches the keys it was not given.  Across add
\* and remove the records of a key stay in the order of their registration; with a keys
\* argument, the records of the other keys are neither removed nor passed to the
\* callback; the active contexts are unchanged.
C22_OrderAndFrame == [][C22_RemoveFrame /\ C22_AddAppends]_vars

\* remove was given the key 'a' and deleted the second of the three records of 'A': the
\* other two are left in their order, and the record of 'Escape', which the callback
\* selects too, is left
C22_Witness ==
    /\ Removed
    /\ call.keys = JStr(<<"a">>)
    /\ call.ret = 1
    /\ Len(call.before.shortcuts_[<<"A">>]) = 3
    /\ removeShortcut(call.removeShortcut, call.before.shortcuts_[<<"A">>][2])
    /\ shortcuts_[<<"A">>] = <<call.before.shortcuts_[<<"A">>][1],
                               call.before.shortcuts_[<<"A">>][3]>>
    /\ shortcuts_[<<"A">>][1] # shortcuts_[<<"A">>][2]
    /\ Str_Escape \in DOMAIN shortcuts_
    /\ Len(shortcuts_[Str_Escape]) = 1

(***************************************************************************)
(* An instance that is given shortcuts registerShortcuts rejects, alone    *)
(* and in a batch with shortcuts it accepts, by the constructor and by     *)
(* add.  A constructor that throws leaves no instance to call.             *)
(***************************************************************************)
\* the shortcuts given: key, modifiers and the name of the handler
RegisterCatalogue ==
    {PlainA, CtrlA}
    \cup {ShortcutOptions(s[1], s[2], Handler(s[3]), JUndefined) : s \in {
            <<<<"a">>, JArr(<<"shift">>), "shiftA">>,
            \* a modifier name that is not one of the supported modifiers
            <<<<"A">>, JArr(<<"magic">>), "magicA">>,
            <<<<"A">>, JArr(<<"ctrl", "magic">>), "ctrlMagicA">>,
            \* shift with a key that is a symbol: one symbol of each range of isSymbol
            <<<<"!">>, JArr(<<"shift">>), "shiftBang">>,
            <<<<"[">>, JArr(<<"shift", "ctrl">>), "shiftCtrlBracket">>,
            <<<<"|">>, JArr(<<"ctrl", "shift">>), "ctrlShiftBar">>,
            <<<<"section">>, JStr("shift"), "shiftSection">>,
            \* a symbol without shift, and shift with the physical code of a symbol key
            <<<<"-">>, JArr(<<"ctrl">>), "ctrlMinus">>,
            <<<<"c", "o", "d", "e", ":", "M", "i", "n", "u", "s">>, JArr(<<"shift", "ctrl">>),
              "shiftCodeMinus">>,
            \* the supported modifiers, written in another letter case
            <<<<"A">>, JArr(<<"ctrL">>), "mixedCtrlA">>,
            <<<<"A">>, JArr(<<"Alt">>), "mixedAltA">>,
            <<<<"A">>, JArr(<<"mEta">>), "mixedMetaA">>,
            <<<<"A">>, JArr(<<"SHIFT">>), "mixedShiftA">>}}

\* one shortcut, or two shortcuts one of which is PlainA
RegisterBatches ==
    {<<s>> : s \in RegisterCatalogue}
    \cup {<<PlainA, s>> : s \in RegisterCatalogue}
    \cup {<<s, PlainA>> : s \in RegisterCatalogue}

RegisterOptions ==
    {[systemMod |-> "ctrl", activeContexts |-> c, noAutoBind |-> TRUE, shortcuts |-> s] :
        c \in {JUndefined, JArr(<<<<"a">>>>)},
        s \in {JUndefined} \cup {JArr(batch) : batch \in RegisterBatches}}

\* new Shocut(options) with one of `choices`.  `built` is the object the constructor
\* worked on, which the caller gets when the constructor returns.
Constructs(choices) ==
    /\ \E options \in choices :
          /\ shortcuts_ = constructor(options).this.shortcuts_
          /\ activeContexts_ = constructor(options).this.activeContexts_
          /\ hasNoModShortcutsInActiveCtx_ =
                 constructor(options).this.hasNoModShortcutsInActiveCtx_
          /\ autobind_ = constructor(options).this.autobind_
          /\ systemMod_ = constructor(options).this.systemMod_
          /\ call = [name |-> "constructor", options |-> options,
                     built |-> constructor(options).this,
                     thrown |-> constructor(options).thrown]
          /\ listeners = addEventListener({}, "this", constructor(options).this)
    /\ fn = Idle
    /\ twin = Idle

\* the caller has taken the outcome of the call; there is no instance to go on with
\* when it was the constructor that threw
ReturnConstructed ==
    /\ call.name = "constructor" => call.thrown = "none"
    /\ Return

NextRegister ==
    \/ AddUpTo(RegisterBatches, MaxRegistered)
    \/ HandleKeydown
    \/ ReturnConstructed

SpecRegister == Constructs(RegisterOptions) /\ [][NextRegister]_vars

(***************************************************************************)
(* Registration.                                                           *)
(***************************************************************************)
\* the modifier names of a shortcut passed to add or to the constructor
ModsGiven(shortcut) == SetOf(getArrayFromProp(shortcut.mod))

\* the modifier name in lower case
LowerCased(mod) ==
    IF mod = "ctrL" THEN "ctrl"
    ELSE IF mod = "Alt" THEN "alt"
    ELSE IF mod = "mEta" THEN "meta"
    ELSE IF mod = "SHIFT" THEN "shift"
    ELSE mod

ModifierNames == {"system", "ctrl", "meta", "alt", "shift"}

\* charCodeAt(0) of the characters that are symbols
SymbolCodes == (32..47) \cup (91..96) \cup (123..126) \cup (160..191)

BeginsWithSymbol(key) == charCodeAt0(key) \in SymbolCodes

\* a modifier name that is no modifier in any letter case
HasUnknownModifier(shortcut) ==
    \E mod \in ModsGiven(shortcut) : LowerCased(mod) \notin ModifierNames

ShiftWithSymbol(shortcut) == "shift" \in ModsGiven(shortcut) /\ BeginsWithSymbol(shortcut.key)

Rejected(batch) ==
    \E i \in 1..Len(batch) : HasUnknownModifier(batch[i]) \/ ShiftWithSymbol(batch[i])

Constructed == call.name = "constructor"

\* the shortcuts option of the constructor, as a list
ShortcutsOption == getArrayFromProp(call.options.shortcuts)

\* a constructor given a batch with an invalid shortcut throws and has stored nothing
\* in the object it was building
C23_Constructor ==
    (Constructed /\ Rejected(ShortcutsOption)) =>
        /\ call.thrown = "Error"
        /\ Stored(call.built.shortcuts_) = {}
        /\ call.built.activeContexts_ = getArrayFromProp(call.options.activeContexts)
        /\ ~call.built.hasNoModShortcutsInActiveCtx_

\* add given a batch with an invalid shortcut throws and leaves the instance as it was
C23_Add ==
    (call = Idle /\ call'.name = "add" /\ Rejected(call'.shortcuts)) =>
        /\ call'.thrown = "Error"
        /\ shortcuts_' = shortcuts_
        /\ activeContexts_' = activeContexts_
        /\ hasNoModShortcutsInActiveCtx_' = hasNoModShortcutsInActiveCtx_

\* C23: registration is all-or-nothing.  When a shortcut of the batch has an unknown
\* modifier name or combines shift with a symbol key, add and the constructor throw and
\* store no shortcut of the batch, also not the valid ones before the invalid one; the
\* Map, the active contexts and the cached flag are as before the call.
C23_AllOrNothing == []C23_Constructor /\ [][C23_Add]_vars

\* add threw on a batch whose first shortcut is valid and would have set the cached
\* flag, given to an instance that holds a record and whose flag is false
C23_Witness ==
    /\ call.name = "add"
    /\ call.thrown = "Error"
    /\ Len(call.shortcuts) = 2
    /\ call.shortcuts[1] = PlainA
    /\ Rejected(<<call.shortcuts[2]>>)
    /\ Cardinality(Stored(shortcuts_)) = 1
    /\ ~hasNoModShortcutsInActiveCtx_

\* the shortcuts given to the call that registered
Registering == IF call.name = "add" THEN call.shortcuts
               ELSE IF Constructed THEN ShortcutsOption
               ELSE <<>>

\* the modifiers of a stored record, resolved as the claim says: in lower case
RequiredOf(shortcut) == {LowerCased(mod) : mod \in SetOf(shortcut.mod)}

\* C24: modifier names are case-insensitive at registration.  A batch whose modifier
\* names are supported ones in any letter case is accepted, its records hold the names
\* in lower case, and a record fires on the event that holds exactly its modifiers.
C24_ModifierCase ==
    /\ (Len(Registering) > 0 /\ ~Rejected(Registering)) => call.thrown = "none"
    /\ \A record \in Stored(shortcuts_) :
          SetOf(shortcuts_[record[1]][record[2]].mod) \subseteq ModifierNames
    /\ Dispatched =>
          \A record \in Stored(call.before.shortcuts_) :
              LET shortcut == call.before.shortcuts_[record[1]][record[2]]
              IN (/\ shortcut.key = getShortcutKey(call.e.key, call.e.code)
                  /\ shortcut.context = JArr(<<>>)
                  /\ "system" \notin RequiredOf(shortcut)
                  /\ RequiredOf(shortcut) = Held(call.e))
                     => includes(call.fired, shortcut)

\* the key is given as 'code:<PhysicalCode>'
IsCodeKey(key) == Len(key) > 5 /\ SubSeq(key, 1, 5) = <<"c", "o", "d", "e", ":">>

\* the shortcut has supported modifiers and either a code key or no shift with a symbol
Acceptable(shortcut) ==
    /\ ModsGiven(shortcut) \subseteq ModifierNames
    /\ IsCodeKey(shortcut.key) \/ ~ShiftWithSymbol(shortcut)

\* C25: a shortcut whose modifiers include shift and whose key begins with a symbol
\* character makes the registration throw, with or without other modifiers; a key in
\* 'code:' form is accepted with shift.
C25_ShiftWithSymbol ==
    /\ (\E i \in 1..Len(Registering) : ShiftWithSymbol(Registering[i]))
           => call.thrown = "Error"
    /\ (/\ \E i \in 1..Len(Registering) :
              IsCodeKey(Registering[i].key) /\ "shift" \in ModsGiven(Registering[i])
        /\ \A i \in 1..Len(Registering) : Acceptable(Registering[i]))
           => call.thrown = "none"

\* add threw on a symbol key with shift and another modifier, on an instance that holds
\* a record of a code key with shift
C25_Witness ==
    /\ call.name = "add"
    /\ call.thrown = "Error"
    /\ Len(call.shortcuts) = 1
    /\ ShiftWithSymbol(call.shortcuts[1])
    /\ Cardinality(ModsGiven(call.shortcuts[1])) = 2
    /\ \E record \in Stored(shortcuts_) :
          /\ IsCodeKey(record[1])
          /\ includes(shortcuts_[record[1]][record[2]].mod, "shift")

(***************************************************************************)
(* An instance whose active contexts are changed with valid names, with    *)
(* names that start with '!', with the empty name and with repeated names, *)
(* by the constructor and by the three methods.                            *)
(***************************************************************************)
\* the lists of names given to the constructor and to the methods
NameLists ==
    {<<<<"a">>>>, <<<<"b">>>>, <<<<"c">>>>,
     <<<<"a">>, <<"b">>>>, <<<<"c">>, <<"a">>>>, <<<<"a">>, <<"a">>>>,
     <<<<"!", "a">>>>, <<<<"b">>, <<"!", "a">>>>,       \* '!a'
     <<<<>>>>, <<<<"b">>, <<>>>>}                       \* the empty name

\* the shortcut of the instance fires in context 'b' only
ContextOptions ==
    {[systemMod |-> "ctrl", activeContexts |-> c, noAutoBind |-> TRUE,
      shortcuts |-> JArr(<<GatedA>>)] :
        c \in {JUndefined} \cup {JArr(names) : names \in NameLists}}

ActivateNamed ==
    /\ call = Idle
    /\ \E contexts \in NameLists :
          LET after == activateContext(This, contexts)
          IN  /\ Becomes(after.this)
              /\ call' = [name |-> "activateContext", contexts |-> contexts,
                          before |-> This, thrown |-> after.thrown]
    /\ UNCHANGED <<fn, twin, listeners>>

SetNamed ==
    /\ call = Idle
    /\ \E contexts \in NameLists \cup {<<>>} :
          LET after == setActiveContexts(This, contexts)
          IN  /\ Becomes(after.this)
              /\ call' = [name |-> "setActiveContexts", contexts |-> contexts,
                          before |-> This, thrown |-> after.thrown]
    /\ UNCHANGED <<fn, twin, listeners>>

DeactivateNamed ==
    /\ call = Idle
    /\ \E contexts \in NameLists :
          LET after == deactivateContext(This, contexts)
          IN  /\ Becomes(after.this)
              /\ call' = [name |-> "deactivateContext", contexts |-> contexts,
                          before |-> This, thrown |-> after.thrown]
    /\ UNCHANGED <<fn, twin, listeners>>

NextContexts ==
    \/ ActivateNamed
    \/ SetNamed
    \/ DeactivateNamed
    \/ ReturnConstructed

SpecContexts == Constructs(ContextOptions) /\ [][NextContexts]_vars

(***************************************************************************)
(* The active contexts.                                                    *)
(***************************************************************************)
\* the names given to the call that sets or activates contexts
NamesGiven ==
    IF Constructed THEN getArrayFromProp(call.options.activeContexts)
    ELSE IF call.name \in {"activateContext", "setActiveContexts"} THEN call.contexts
    ELSE <<>>

\* the instance is as it was before the call of a method
AsBefore ==
    call.name \in {"activateContext", "setActiveContexts", "deactivateContext"} =>
        /\ activeContexts_ = call.before.activeContexts_
        /\ hasNoModShortcutsInActiveCtx_ = call.before.hasNoModShortcutsInActiveCtx_
        /\ shortcuts_ = call.before.shortcuts_

\* C26: the constructor, activateContext and setActiveContexts throw when one of the
\* names starts with '!', and the call is rejected as a whole: no name of the call is
\* activated and the active contexts and the cached flag are as before.
C26_NegatedNameRejected ==
    (\E i \in 1..Len(NamesGiven) : startsWith(NamesGiven[i], "!")) =>
        /\ call.thrown = "Error"
        /\ AsBefore

\* activateContext('b', '!a') threw on an instance whose shortcut waits for 'b', and 'b'
\* is not active and the flag is false
C26_Witness ==
    /\ call.name = "activateContext"
    /\ call.contexts = <<<<"b">>, <<"!", "a">>>>
    /\ call.thrown = "Error"
    /\ Len(activeContexts_) > 0
    /\ ~includes(activeContexts_, <<"b">>)
    /\ ~hasNoModShortcutsInActiveCtx_

\* the empty string
EmptyName == <<>>

\* C27: the constructor, activateContext and setActiveContexts throw when one of the
\* names is the empty string, so the empty name is never active.
C27_EmptyNameRejected ==
    /\ (\E i \in 1..Len(NamesGiven) : NamesGiven[i] = EmptyName) => call.thrown = "Error"
    /\ (Constructed => call.thrown = "none") => ~includes(activeContexts_, EmptyName)

NoDuplicates(list) == \A i, j \in 1..Len(list) : list[i] = list[j] => i = j

\* the names of `given` that are not in `list`, each once, in the order of `given`
RECURSIVE NewNames(_, _)
NewNames(list, given) ==
    IF Len(given) = 0 THEN <<>>
    ELSE IF includes(list, Head(given)) THEN NewNames(list, Tail(given))
    ELSE <<Head(given)>> \o NewNames(Append(list, Head(given)), Tail(given))

\* the list getActiveContexts returns holds no name twice
C28_NoDuplicateName ==
    (Constructed => call.thrown = "none") => NoDuplicates(getActiveContexts(This))

\* the names are in the order of their first activation: activateContext leaves the
\* active names where they are and puts the new ones after them, setActiveContexts and
\* the constructor start from the order given
C28_ActivationOrder ==
    /\ (call.name = "activateContext" /\ call.thrown = "none") =>
           activeContexts_ = call.before.activeContexts_
                                 \o NewNames(call.before.activeContexts_, call.contexts)
    /\ ((call.name = "setActiveContexts" \/ Constructed) /\ call.thrown = "none") =>
           activeContexts_ = NewNames(<<>>, NamesGiven)

\* C28: in every reachable state, from any activeContexts option of the constructor and
\* after any activateContext, deactivateContext and setActiveContexts, the list of
\* active contexts holds no name twice and is in the order of first activation.
C28_OrderedSet == C28_NoDuplicateName /\ C28_ActivationOrder

Deactivated == call.name = "deactivateContext"

\* the list without the names of `given`, the others in their order
Without(list, given) == SelectSeq(list, LAMBDA name : ~includes(given, name))

\* C29: after deactivateContext(c1..cn) none of c1..cn is active and the other active
\* contexts are active in the order they were in; deactivating a context that is not
\* active changes nothing.
C29_Deactivated ==
    Deactivated =>
        /\ \A i \in 1..Len(call.contexts) : ~includes(activeContexts_, call.contexts[i])
        /\ activeContexts_ = Without(call.before.activeContexts_, call.contexts)

(***************************************************************************)
(* Two instances that are called on their own: each public method is       *)
(* called on one of them.  Both constructors bind handleKeydown to window, *)
(* so a keydown event dispatched on window reaches the listener of the     *)
(* first and then, as the first left it, the listener of the second, as    *)
(* long as destroy has not removed them.                                   *)
(***************************************************************************)
IsolatedBatches == {<<PlainA>>, <<CtrlA>>, <<GatedA>>}

IsolatedContexts == {<<<<"b">>>>}

\* the letter A, with and without ctrl
IsolatedEvents == {e \in KeyboardEvents({<<<<"a">>, Str_KeyA>>}) : Held(e) \subseteq {"ctrl"}}

InitIsolated ==
    /\ \E options \in {[systemMod |-> "ctrl", activeContexts |-> JUndefined,
                         noAutoBind |-> FALSE, shortcuts |-> JUndefined]} :
          /\ constructor(options).thrown = "none"
          /\ shortcuts_ = constructor(options).this.shortcuts_
          /\ activeContexts_ = constructor(options).this.activeContexts_
          /\ hasNoModShortcutsInActiveCtx_ =
                 constructor(options).this.hasNoModShortcutsInActiveCtx_
          /\ autobind_ = constructor(options).this.autobind_
          /\ systemMod_ = constructor(options).this.systemMod_
          /\ twin = constructor(options).this
          /\ listeners = addEventListener(addEventListener({}, "this", constructor(options).this),
                                          "twin", constructor(options).this)
    /\ call = Idle
    /\ fn = Idle

AddOn ==
    /\ call = Idle
    /\ \E on \in Instances, shortcuts \in IsolatedBatches :
          /\ Cardinality(Stored(InstanceOf(on).shortcuts_)) + Len(shortcuts) <= MaxIsolated
          /\ BecomesOn(on, add(InstanceOf(on), shortcuts).this)
          /\ call' = [name |-> "add", on |-> on, shortcuts |-> shortcuts,
                      thrown |-> add(InstanceOf(on), shortcuts).thrown]
    /\ UNCHANGED <<fn, listeners>>

RemoveOn ==
    /\ call = Idle
    /\ \E on \in Instances, callback \in RemoveCallbacks, keys \in RemoveKeys :
          /\ BecomesOn(on, remove(InstanceOf(on), callback, keys).this)
          /\ call' = [name |-> "remove", on |-> on, removeShortcut |-> callback,
                      keys |-> keys, ret |-> remove(InstanceOf(on), callback, keys).ret,
                      thrown |-> "none"]
    /\ UNCHANGED <<fn, listeners>>

ActivateContextOn ==
    /\ call = Idle
    /\ \E on \in Instances, contexts \in IsolatedContexts :
          /\ BecomesOn(on, activateContext(InstanceOf(on), contexts).this)
          /\ call' = [name |-> "activateContext", on |-> on, contexts |-> contexts,
                      thrown |-> activateContext(InstanceOf(on), contexts).thrown]
    /\ UNCHANGED <<fn, listeners>>

SetActiveContextsOn ==
    /\ call = Idle
    /\ \E on \in Instances, contexts \in IsolatedContexts \cup {<<>>} :
          /\ BecomesOn(on, setActiveContexts(InstanceOf(on), contexts).this)
          /\ call' = [name |-> "setActiveContexts", on |-> on, contexts |-> contexts,
                      thrown |-> setActiveContexts(InstanceOf(on), contexts).thrown]
    /\ UNCHANGED <<fn, listeners>>

DeactivateContextOn ==
    /\ call = Idle
    /\ \E on \in Instances, contexts \in IsolatedContexts :
          /\ BecomesOn(on, deactivateContext(InstanceOf(on), contexts).this)
          /\ call' = [name |-> "deactivateContext", on |-> on, contexts |-> contexts,
                      thrown |-> "none"]
    /\ UNCHANGED <<fn, listeners>>

DestroyOn ==
    /\ call = Idle
    /\ \E on \in Instances :
          /\ BecomesOn(on, destroy(InstanceOf(on)).this)
          /\ listeners' = IF destroy(InstanceOf(on)).unbinds THEN listeners \ {on}
                           ELSE listeners
          /\ call' = [name |-> "destroy", on |-> on, thrown |-> "none"]
    /\ UNCHANGED fn

\* the event as the listeners called so far have left it
Handled(e, pass) ==
    [e EXCEPT !.defaultPrevented = e.defaultPrevented \/ pass.defaultPrevented,
              !.propagationStopped = e.propagationStopped \/ pass.propagationStopped]

\* window.dispatchEvent(e) for a keydown event: the listeners of window are called in
\* the order they were added, the listener of the first instance before that of the second
DispatchKeydown ==
    /\ call = Idle
    /\ \E e \in IsolatedEvents :
          LET dispatched == e @@ [defaultPrevented |-> FALSE, propagationStopped |-> FALSE]
              first == IF "this" \in listeners THEN handleKeydown(This, dispatched)
                       ELSE newPass(This)
              second == IF "twin" \in listeners
                        THEN handleKeydown(twin, Handled(dispatched, first))
                        ELSE newPass(twin)
          IN  /\ Becomes(first.this)
              /\ twin' = second.this
              /\ call' = [name |-> "handleKeydown", e |-> e, called |-> listeners,
                          before |-> This, fired |-> first.fired,
                          defaultPrevented |-> first.defaultPrevented,
                          twinBefore |-> twin, twinFired |-> second.fired,
                          thrown |-> "none"]
    /\ UNCHANGED <<fn, listeners>>

NextIsolated ==
    \/ AddOn
    \/ RemoveOn
    \/ ActivateContextOn
    \/ SetActiveContextsOn
    \/ DeactivateContextOn
    \/ DestroyOn
    \/ DispatchKeydown
    \/ TwinReturn

SpecIsolated == InitIsolated /\ [][NextIsolated]_vars

(***************************************************************************)
(* Isolation of instances.                                                 *)
(***************************************************************************)
\* the records of the instance that the event matches, in the order of their
\* registration: key, modifiers and context (a list of names, one of which is active)
OwnMatching(instance, e) ==
    SelectSeq(getOrEmpty(instance.shortcuts_, getShortcutKey(e.key, e.code)),
              LAMBDA shortcut :
                  /\ Held(e) = Resolved(SetOf(shortcut.mod), instance.systemMod_)
                  /\ \/ IsGlobal(shortcut)
                     \/ \E i \in 1..Len(shortcut.context.v) :
                           includes(instance.activeContexts_, shortcut.context.v[i].v))

\* a method called on one instance leaves the fields of the other as they were
C30_Frame ==
    (call = Idle /\ call'.name \in Operations) =>
        /\ call'.on = "this" => twin' = twin /\ ("twin" \in listeners' <=> "twin" \in listeners)
        /\ call'.on = "twin" => This' = This /\ ("this" \in listeners' <=> "this" \in listeners)

\* of an event that both instances receive, each calls the handlers of its own matching
\* records, whatever the other called
C30_OwnHandlers ==
    Dispatched =>
        /\ call.fired = IF "this" \in call.called THEN OwnMatching(call.before, call.e)
                        ELSE <<>>
        /\ call.twinFired = IF "twin" \in call.called
                            THEN OwnMatching(call.twinBefore, call.e) ELSE <<>>

\* C30: instances are isolated.  add, remove, activateContext, deactivateContext,
\* setActiveContexts and destroy on one instance leave the Map, the active contexts and
\* the cached flag of the other unchanged, and of an event that both receive each fires
\* its own matching handlers regardless of what the other fired.
C30_Isolated == []C30_OwnHandlers /\ [][C30_Frame]_vars

\* both instances fired their own handler of the same event, the second after the
\* first had prevented the default action of the event
C30_Witness ==
    /\ Dispatched
    /\ call.called = Instances
    /\ call.defaultPrevented
    /\ Len(call.fired) = 1
    /\ Len(call.twinFired) = 1
    /\ call.fired # call.twinFired
    /\ call.before.activeContexts_ # call.twinBefore.activeContexts_

(***************************************************************************)
(* An instance that binds handleKeydown to window itself, and is destroyed.*)
(* Keydown events are dispatched on window and reach handleKeydown when it *)
(* is one of the listeners.                                                *)
(***************************************************************************)
DestroyOptions ==
    {[systemMod |-> "ctrl", activeContexts |-> c, noAutoBind |-> FALSE, shortcuts |-> s] :
        c \in {JUndefined, JArr(<<<<"b">>>>)},
        s \in {JArr(<<CtrlA>>), JArr(<<PlainA, GatedA>>)}}

\* window.addEventListener('keydown', sh.handleKeydown), called by the owner of the instance
BindManually ==
    /\ call = Idle
    /\ listeners' = listeners \cup {"this"}
    /\ call' = [name |-> "addEventListener", thrown |-> "none"]
    /\ UNCHANGED <<shortcuts_, activeContexts_, hasNoModShortcutsInActiveCtx_, autobind_,
                   systemMod_, fn, twin>>

\* window.dispatchEvent(e) for a keydown event: handleKeydown is called when it is a listener
DispatchOnWindow ==
    /\ call = Idle
    /\ \E e \in IsolatedEvents :
          LET pass == IF "this" \in listeners THEN handleKeydown(This, e) ELSE newPass(This)
          IN  /\ Becomes(pass.this)
              /\ call' = [name |-> "dispatchEvent", e |-> e, before |-> This,
                          called |-> "this" \in listeners,
                          ret |-> pass.ret, fired |-> pass.fired, thrown |-> "none"]
    /\ UNCHANGED <<fn, twin, listeners>>

NextDestroy ==
    \/ AddOf(IsolatedBatches)
    \/ ActivateContext
    \/ Destroy
    \/ BindManually
    \/ DispatchOnWindow
    \/ ReturnConstructed

SpecDestroy == Constructs(DestroyOptions) /\ [][NextDestroy]_vars

(***************************************************************************)
(* destroy.                                                                *)
(***************************************************************************)
\* the instance holds no record
NoRecords == Stored(shortcuts_) = {}

\* destroy leaves no shortcuts, no active contexts and a false flag behind, and the
\* listener that the constructor bound is not a listener of window any more
C31_Destroyed ==
    (call = Idle /\ call'.name = "destroy") =>
        /\ shortcuts_' = <<>>
        /\ activeContexts_' = <<>>
        /\ hasNoModShortcutsInActiveCtx_' = FALSE
        /\ autobind_ => "this" \notin listeners'

\* an instance without records stays without records until add is called
C31_UntilAdded ==
    (call = Idle /\ NoRecords /\ call'.name # "add") => NoRecords'

\* a keydown event fires no handler of an instance without records
C31_NothingFires ==
    (call = Idle /\ NoRecords /\ call'.name = "dispatchEvent") =>
        /\ call'.fired = <<>>
        /\ call'.ret = FALSE

\* C31: after destroy() the instance holds no shortcuts and no active contexts and its
\* cached flag is false; every later keydown event, whether it no longer reaches
\* handleKeydown or reaches it through a manual binding, fires no handler and returns
\* false until new shortcuts are added; the listener bound by the constructor is removed.
C31_AfterDestroy == [][C31_Destroyed /\ C31_UntilAdded /\ C31_NothingFires]_vars

\* a destroyed instance (the Map has no key left) whose owner activated a context and
\* bound handleKeydown again: ctrl+A reaches handleKeydown, nothing fires
C31_Witness ==
    /\ call.name = "dispatchEvent"
    /\ call.called
    /\ call.e.ctrlKey
    /\ call.before.shortcuts_ = <<>>
    /\ call.before.activeContexts_ # <<>>
    /\ ~call.before.autobind_
    /\ call.fired = <<>>
    /\ call.ret = FALSE

(***************************************************************************)
(* An instance whose shortcuts opt out of the suppression of the event.    *)
(***************************************************************************)
\* the letter A with each combination of noDefaultPrevent and noPropagationStop, and
\* ctrl+A that opts out of nothing
SuppressBatches ==
    {<<[PlainA EXCEPT !.noDefaultPrevent = d, !.noPropagationStop = p]>> :
        d \in BOOLEAN, p \in BOOLEAN}
    \cup {<<CtrlA>>}

NextSuppress ==
    \/ AddOf(SuppressBatches)
    \/ HandleKeydown
    \/ Return

SpecSuppress == Init /\ [][NextSuppress]_vars

(***************************************************************************)
(* Suppression of the event.                                               *)
(***************************************************************************)
\* C32: during a dispatch pass preventDefault is called on the event iff at least one
\* fired record has noDefaultPrevent false, and stopPropagation is called iff at least one
\* fired record has noPropagationStop false; the two are independent, and a fired record
\* with both flags set suppresses nothing.
C32_Suppression ==
    Dispatched =>
        /\ call.defaultPrevented = (\E i \in 1..Len(call.fired) : ~call.fired[i].noDefaultPrevent)
        /\ call.propagationStopped =
               (\E i \in 1..Len(call.fired) : ~call.fired[i].noPropagationStop)

\* two records fired, the first opts out of both effects and the second of
\* stopPropagation only: the default action is prevented and the propagation is not stopped
C32_Witness ==
    /\ Dispatched
    /\ Len(call.fired) = 2
    /\ call.fired[1].noDefaultPrevent /\ call.fired[1].noPropagationStop
    /\ ~call.fired[2].noDefaultPrevent /\ call.fired[2].noPropagationStop
    /\ call.defaultPrevented
    /\ ~call.propagationStopped

(***************************************************************************)
(* Direct calls of getShortcutKey.                                         *)
(***************************************************************************)
\* key values: Latin letters, a digit, a symbol, an extended Latin letter, the characters
\* around the threshold, Cyrillic letters, the empty string and longer values; code
\* values: letter and digit positions, and codes that only look like them
InitKey ==
    /\ NoInstance
    /\ \E key \in {<<"a">>, <<"A">>, <<"0">>, <<"!">>, <<"sacute">>, <<"xabove">>, <<"Heta">>,
                   <<"ya">>, <<"YA">>, <<>>, Str_Escape, <<"ya", "ya">>},
          code \in {Str_KeyA, <<"K", "e", "y">>, Str_KeyA \o <<"B">>, <<"a">> \o Str_KeyA,
                    <<"H", "o", "m", "e">>, <<"D", "i", "g", "i", "t", "1">>,
                    <<"D", "i", "g", "i", "t">>, <<"D", "i", "g", "i", "t", "1", "2">>,
                    Str_Escape, <<"M", "i", "n", "u", "s">>, <<>>} :
          fn = [name |-> "getShortcutKey", key |-> key, code |-> code,
                done |-> FALSE, result |-> <<>>]

CallGetShortcutKey ==
    /\ fn.name = "getShortcutKey"
    /\ ~fn.done
    /\ fn' = [fn EXCEPT !.done = TRUE, !.result = getShortcutKey(fn.key, fn.code)]
    /\ InstanceUnchanged

SpecKey == InitKey /\ [][CallGetShortcutKey]_vars

(***************************************************************************)
(* The key of an event.                                                    *)
(***************************************************************************)
KeyDone == fn.name = "getShortcutKey" /\ fn.done

\* the code is `prefix` followed by one character
NamesPosition(code, prefix) ==
    /\ Len(code) = Len(prefix) + 1
    /\ \A i \in 1..Len(prefix) : code[i] = prefix[i]

\* C33: getShortcutKey(key, code) is the key unchanged when it is not exactly one
\* character; the upper-cased key when its one character has a char code below 880,
\* whatever the code; and for a char code of 880 or above the 4th character of a code that
\* is 'Key' plus one character, the 6th character of a code that is 'Digit' plus one
\* character, and otherwise the upper-cased key.
C33_ShortcutKey ==
    KeyDone =>
        /\ Len(fn.key) # 1 => fn.result = fn.key
        /\ (Len(fn.key) = 1 /\ charCodeAt0(fn.key) < 880) => fn.result = toUpperCase(fn.key)
        /\ (Len(fn.key) = 1 /\ charCodeAt0(fn.key) >= 880) =>
              fn.result = IF NamesPosition(fn.code, <<"K", "e", "y">>) THEN <<fn.code[4]>>
                          ELSE IF NamesPosition(fn.code, <<"D", "i", "g", "i", "t">>)
                               THEN <<fn.code[6]>>
                          ELSE toUpperCase(fn.key)

\* the character whose char code is the threshold, typed on the physical key A
C33_Witness ==
    /\ KeyDone
    /\ fn.key = <<"Heta">>
    /\ fn.code = Str_KeyA
    /\ fn.result = <<"A">>

(***************************************************************************)
(* An instance whose shortcuts are registered with keys in either case.    *)
(***************************************************************************)
\* the letter A registered as 'a' and as 'A', Escape registered as 'Escape' and as
\* 'escape', and the physical key A
StoreBatches ==
    {<<PlainA>>, <<[PlainA EXCEPT !.key = <<"A">>, !.handler = Handler("upperA")]>>,
     <<PlainEscape>>,
     <<[PlainEscape EXCEPT !.key = <<"e", "s", "c", "a", "p", "e">>,
                           !.handler = Handler("lowerEscape")]>>,
     <<CodeKeyA>>}

NextStore ==
    \/ AddOf(StoreBatches)
    \/ RemoveByKey
    \/ HandleKeydown
    \/ Return

SpecStore == Init /\ [][NextStore]_vars

(***************************************************************************)
(* The key a record is stored with.                                        *)
(***************************************************************************)
\* the key a shortcut registered with `key` is stored with
StoredKey(key) == IF Len(key) = 1 THEN <<toUpperCaseChar(key[1])>> ELSE key

\* add stores the shortcut last in the list of its stored key, with that key
C34_Add ==
    (call = Idle /\ call'.name = "add" /\ call'.thrown = "none") =>
        LET shortcut == call'.shortcuts[1]
            key == StoredKey(shortcut.key)
            list == getOrEmpty(shortcuts_, key)
        IN  /\ key \in DOMAIN shortcuts_'
            /\ Len(shortcuts_'[key]) = Len(list) + 1
            /\ SubSeq(shortcuts_'[key], 1, Len(list)) = list
            /\ shortcuts_'[key][Len(list) + 1].key = key
            /\ shortcuts_'[key][Len(list) + 1].handler = shortcut.handler
            /\ \A other \in DOMAIN shortcuts_' \ {key} :
                  other \in DOMAIN shortcuts_ /\ shortcuts_'[other] = shortcuts_[other]

\* no list is kept under a lower-case letter, the keydown of the letter A fires the
\* whole list of 'A' in the order of the list, and the records passed to the callback of
\* remove carry the key they are stored under
C34_Lists ==
    /\ <<"a">> \notin DOMAIN shortcuts_
    /\ (Dispatched /\ call.e.key = <<"a">> /\ Held(call.e) = {}) =>
           SelectSeq(call.fired, LAMBDA shortcut : shortcut.key = <<"A">>)
               = getOrEmpty(call.before.shortcuts_, <<"A">>)
    /\ Removed =>
           \A record \in call.tested :
               /\ call.before.shortcuts_[record[1]][record[2]].key = record[1]
               /\ record[1] # <<"a">>

\* C34: a single-character key is stored upper-cased at registration, so shortcuts
\* registered with 'a' and with 'A' live in the same dispatch list, both fire for one
\* keydown of that letter in registration order, and the record passed to the callback of
\* remove has the upper-case key; multi-character keys and 'code:' keys are stored
\* unchanged.
C34_StoredKey == []C34_Lists /\ [][C34_Add]_vars

\* registered as 'a' and then as 'A': one keydown of the letter fires both, in that order
C34_Witness ==
    /\ Dispatched
    /\ Len(call.fired) = 2
    /\ call.fired[1].handler.name = "plainA"
    /\ call.fired[2].handler.name = "upperA"
    /\ call.fired[1].key = <<"A">>
    /\ call.fired[2].key = <<"A">>

(***************************************************************************)
(* AND-groups that do not decide: a negation behind a failed affirmation,  *)
(* and the empty group.                                                    *)
(***************************************************************************)
\* a negated context of the group is active and one of its affirmed contexts is not
Blocked(A, term) == Negated(term) \cap A # {} /\ ~(Affirmed(term) \subseteq A)

\* C35: an active negated context vetoes only from an AND-group whose affirmations all
\* hold.  A group that holds '!c' with c active and an affirmed context that is inactive
\* is a no_match; it does not veto, and when another OR-term is a full inclusion (and no
\* term vetoes) checkContext returns true.
C35_BlockedNegation ==
    CtxDone =>
        /\ \A term \in CtxTerms :
              Blocked(CtxActive, term) =>
                  checkContextAndRelation(fn.activeContexts, term) = "no_match"
        /\ (/\ \E term \in CtxTerms : Blocked(CtxActive, term)
            /\ \E term \in CtxTerms : IsInclusion(CtxActive, term)
            /\ \A term \in CtxTerms : ~Vetoes(CtxActive, term)) => fn.result = TRUE

\* active = {b} with ['b', ['a', '!b']] is true
C35_Witness ==
    /\ CtxDone
    /\ fn.activeContexts = <<<<"b">>>>
    /\ fn.inputContext = JArr(<<JStr(<<"b">>), JArr(<<JStr(<<"a">>), JStr(<<"!", "b">>)>>)>>)
    /\ fn.result = TRUE

\* C36: an empty AND-group used as an OR-term counts as a match: an expression that
\* holds [] is true whenever no term vetoes, even when every other term has an
\* affirmation that fails.
C36_EmptyGroup ==
    (CtxDone /\ JArr(<<>>) \in CtxTerms /\ \A term \in CtxTerms : ~Vetoes(CtxActive, term))
        => fn.result = TRUE

\* active = {a} with [[], ['a', 'b']] is true
C36_Witness ==
    /\ CtxDone
    /\ fn.activeContexts = <<<<"a">>>>
    /\ fn.inputContext = JArr(<<JArr(<<>>), JArr(<<JStr(<<"a">>), JStr(<<"b">>)>>)>>)
    /\ fn.result = TRUE

(***************************************************************************)
(* Two calls of checkContext: one with the arguments as drawn, one with    *)
(* the arguments changed.  A change exchanges two neighbours of the active *)
(* list, of the OR-terms or of the references of one AND-group (every      *)
(* permutation is a chain of such exchanges, and each link of the chain is *)
(* again a drawn pair of arguments), or it activates one more context.     *)
(***************************************************************************)
\* the list with its elements i and i + 1 exchanged
Exchanged(list, i) ==
    [j \in 1..Len(list) |-> IF j = i THEN list[i + 1] ELSE IF j = i + 1 THEN list[i] ELSE list[j]]

Reordered(active, expr) ==
    {[kind |-> "order", activeContexts |-> Exchanged(active, i), inputContext |-> JArr(expr)] :
        i \in 1..(Len(active) - 1)}
    \cup {[kind |-> "order", activeContexts |-> active,
           inputContext |-> JArr(Exchanged(expr, i))] : i \in 1..(Len(expr) - 1)}
    \cup UNION {{[kind |-> "order", activeContexts |-> active,
                  inputContext |-> JArr([expr EXCEPT ![i] = JArr(Exchanged(expr[i].v, j))])] :
                    j \in 1..(Len(expr[i].v) - 1)} :
                i \in {k \in 1..Len(expr) : isArray(expr[k])}}

\* activateContext(context) was called between the two calls
Activated(active, expr) ==
    {[kind |-> "activation", context |-> c,
      activeContexts |-> activateLoop(active, <<c>>, 1), inputContext |-> JArr(expr)] :
        c \in ContextNames}

InitPair ==
    /\ NoInstance
    /\ \E active \in ListsOf(ContextNames), expr \in Exprs(MaxTerms, MaxRefs) :
          \E changed \in Reordered(active, expr) \cup Activated(active, expr) :
              fn = [name |-> "checkContext", activeContexts |-> active,
                    inputContext |-> JArr(expr), changed |-> changed,
                    done |-> FALSE, result |-> FALSE, changedResult |-> FALSE]

CallCheckContextTwice ==
    /\ fn.name = "checkContext"
    /\ ~fn.done
    /\ fn' = [fn EXCEPT !.done = TRUE,
                        !.result = checkContext(fn.activeContexts, fn.inputContext),
                        !.changedResult = checkContext(fn.changed.activeContexts,
                                                       fn.changed.inputContext)]
    /\ InstanceUnchanged

SpecPair == InitPair /\ [][CallCheckContextTwice]_vars

(***************************************************************************)
(* Order and activation.                                                   *)
(***************************************************************************)
\* C37: checkContext is order-independent: permuting the OR-terms, the references
\* inside an AND-group or the active-context list does not change the result.
C37_OrderIndependent ==
    (CtxDone /\ fn.changed.kind = "order") => fn.changedResult = fn.result

\* an inclusion followed by a vetoing term, and the vetoing term first: false both ways
C37_Witness ==
    /\ CtxDone
    /\ fn.changed.kind = "order"
    /\ Len(fn.inputContext.v) = 2
    /\ IsInclusion(CtxActive, fn.inputContext.v[1])
    /\ Vetoes(CtxActive, fn.inputContext.v[2])
    /\ fn.changed.inputContext.v[1] = fn.inputContext.v[2]
    /\ fn.result = FALSE
    /\ fn.changedResult = FALSE

\* the context was activated between the calls and the expression negates it nowhere
ActivatedAffirmed ==
    /\ CtxDone
    /\ fn.changed.kind = "activation"
    /\ \A term \in CtxTerms : fn.changed.context \notin Negated(term)

\* C38: activating a context that the expression references in affirmed form only
\* never turns a matching expression into a non-matching one.  The code breaks it:
\* the activation can complete the affirmations of an AND-group that negates an active
\* context, and the group then vetoes the terms that matched before.
C38_Monotone == (ActivatedAffirmed /\ fn.result = TRUE) => fn.changedResult = TRUE

(***************************************************************************)
(* The frame of handleKeydown.                                             *)
(***************************************************************************)
\* the instance after the handlers of the fired records were called on it, in order
RECURSIVE AfterHandlers(_, _, _)
AfterHandlers(this, fired, i) ==
    IF i > Len(fired) THEN this
    ELSE AfterHandlers(handlerCall(fired[i].handler, this), fired, i + 1)

\* C39: a handleKeydown call in which no handler fires has no effect: it calls neither
\* preventDefault nor stopPropagation and leaves the Map, the active contexts and the
\* cached flag as they were.  handleKeydown itself never changes the instance: what it
\* leaves behind is what the handlers it called made of it.
C39_Frame ==
    Dispatched =>
        /\ This = AfterHandlers(call.before, call.fired, 1)
        /\ call.fired = <<>> =>
              /\ ~call.defaultPrevented
              /\ ~call.propagationStopped
              /\ This = call.before

\* the one candidate of the event has a handler that would activate a context; its
\* modifiers do not match, no handler fires and the instance is as before
C39_Witness ==
    /\ Dispatched
    /\ Len(call.evaluated) = 1
    /\ call.evaluated[1].handler.does = "activateContext"
    /\ call.fired = <<>>
    /\ ~call.defaultPrevented
    /\ This = call.before

====
